---- MODULE Spec2Model ----
(***************************************************************************)
(* The transform-correction engine of glyphs-tools: the Grid Snapper       *)
(* (src/grid-snapper.py) and the Mirror Mender (src/mirror-mender.py),     *)
(* run against one host font document.                                     *)
(*                                                                         *)
(* Numbers.  Coordinates, step and tolerance are Python floats in the      *)
(* source.  Here they are fixed-point integers counted in half micro-units:*)
(* Unit of them make 1.0, so the literal 1e-6 of the source is Eps = 2 of  *)
(* them and offsets below 1e-6 can be told from 0.  The four scalars of a  *)
(* transform's linear part are plain integers.  Arithmetic is exact (no    *)
(* float rounding error).                                                  *)
(*                                                                         *)
(* Both tools are synchronous callbacks on the host's UI thread: each      *)
(* callback is one action, and the host calls it makes are recorded, in    *)
(* order, in the variable calls.                                           *)
(***************************************************************************)
EXTENDS Integers, Sequences, FiniteSets, TLC

\* ------------------------------------------------------------------ bounds
\* The number of placed components in the document.
NumComps == 2

\* ------------------------------------------------------- number representation
Unit == 2000000

Eps == 2

Abs(x) == IF x < 0 THEN -x ELSE x

Min2(a, b) == IF a <= b THEN a ELSE b

Max2(a, b) == IF a >= b THEN a ELSE b

\* Python 3's built-in round() of the quotient v / step (step > 0): the nearest
\* integer, a tie going to the even one.
PyRoundDiv(v, step) ==
  LET q == v \div step
      r == v % step
  IN  IF 2 * r < step THEN q
      ELSE IF 2 * r > step THEN q + 1
      ELSE IF q % 2 = 0 THEN q ELSE q + 1

\* ---------------------------------------------------------- the host document
\* Font.masters and Font.glyphs, in document order.  Glyph B is sparse: it has
\* no layer for master m2.  _dot and _space are the base glyphs the placed
\* components refer to; _space has an empty outline.
NoMaster == "none"

AllMasters == <<"m1", "m2">>

AllGlyphs == <<"A", "B", "_dot", "_space">>

Layer(g, m) == [g |-> g, m |-> m]

HasLayer(g, m) == ~(g = "B" /\ m = "m2")

\* The layers that hold placed components; component c lives in
\* ComponentLayers[((c - 1) % 3) + 1].
ComponentLayers == <<Layer("A", "m1"), Layer("B", "m1"), Layer("A", "m2")>>

Comps == 1..NumComps

Owner(c) == ComponentLayers[((c - 1) % Len(ComponentLayers)) + 1]

\* layer.components, in order.
ComponentsOf(L) == SelectSeq([c \in 1..NumComps |-> c], LAMBDA c : Owner(c) = L)

NoBounds == <<>>

\* The outline bounds (minX, minY, maxX, maxY) of a base glyph's layer, or
\* nothing for an empty outline.
OutlineBounds(base) ==
  IF base = "_dot" THEN <<0, 0, 100 * Unit, 100 * Unit>> ELSE NoBounds

VARIABLES
  host,       \* the host state the tools read: font, selection, masters, undo manager
  comps,      \* per component: base glyph, and whether its transform reads / writes
  transform,  \* per component: (m11, m12, m21, m22, tX, tY)
  pre,        \* transform as it was when the last callback started
  calls,      \* the host calls of the last callback, in order
  last,       \* what the last callback was, read and computed
  preview,    \* the contents of the preview text box
  printed,    \* what the last callback printed
  suspended,  \* disableUpdateInterface calls not yet matched by enableUpdateInterface
  undoOpen,   \* beginUndoGrouping calls not yet matched by endUndoGrouping
  rerun,      \* whether the last callback was a Run repeating the Run before it
  flagged,    \* the components the last Mirror Mender scan took for reflected
  undoStack,  \* the document's undo stack: per closed undo group, the transforms it restores
  undone,     \* whether the last callback was a Reset pressed right after a Run that wrote
  before,     \* whether the last callback came right after a Preview with the same settings
  ui,         \* the panels' buttons, the presses not yet handled, the callbacks running
  jig         \* the brace layers of the glyphs, and what the last Rotator Jig Run did

engine == <<host, comps, transform, pre, calls, last, preview, printed,
            suspended, undoOpen, rerun, flagged, undoStack, undone, before>>

vars == <<engine, ui, jig>>

\* --------------------------------------------------------------- TransformCodec
NoTransform == <<>>

\* get_transform_struct: the six scalars, or None when no host accessor works.
get_transform_struct(c, tr, cm) == IF cm[c].rd THEN tr[c] ELSE NoTransform

\* set_transform_struct: assign comp.transform; if that raises, call
\* comp.setTransform_; if that raises too, report failure.  Yields whether the
\* write succeeded and through which accessor.
set_transform_struct(c, s, cm) ==
  IF cm[c].wr = "tuple" THEN [ok |-> TRUE, via |-> "transform"]
  ELSE IF cm[c].wr = "method" THEN [ok |-> TRUE, via |-> "setTransform_"]
  ELSE [ok |-> FALSE, via |-> "none"]

\* parseFloat: the number typed in the field, or the fallback when the text is
\* not a number.
parseFloat(field, fallback) == IF field.num THEN field.v ELSE fallback

Num(v) == [num |-> TRUE, v |-> v]

NotANumber == [num |-> FALSE, v |-> 0]

\* ------------------------------------------------------------------ grid maths
\* Faulty variant of snap_value: the gridline at or below v.
snap_value_floor(v, step) == IF step <= 0 THEN v ELSE (v \div step) * step

\* Faulty variant of snap_value: the gridline above v.
snap_value_next(v, step) == IF step <= 0 THEN v ELSE ((v \div step) + 1) * step

snap_value(v, step) == IF step <= 0 THEN v ELSE PyRoundDiv(v, step) * step

\* snap_if_within: (newV, changed, deltaToNearest).
snap_if_within(v, step, tol) ==
  IF step <= 0 THEN [newV |-> v, changed |-> FALSE, delta |-> 0]
  ELSE LET nearest == snap_value(v, step)
           delta == nearest - v
       IN  IF tol <= 0
           THEN [newV |-> nearest, changed |-> Abs(delta) > Eps, delta |-> delta]
           ELSE [newV |-> nearest,
                 changed |-> Abs(delta) <= tol /\ Abs(delta) > Eps,
                 delta |-> delta]

\* ------------------------------------------------------------------ ScopeResolver
InSeq(x, sq) == \E i \in 1..Len(sq) : sq[i] = x

RECURSIVE selected_glyphs_from(_, _)
selected_glyphs_from(sel, out) ==
  IF sel = <<>> THEN out
  ELSE selected_glyphs_from(Tail(sel),
         IF InSeq(Head(sel).g, out) THEN out ELSE Append(out, Head(sel).g))

\* selected_glyphs: the parents of the selected layers, first occurrence kept.
selected_glyphs(font) == selected_glyphs_from(font.sel, <<>>)

\* exportable_glyphs: the glyphs of the font whose export flag is set.
exportable_glyphs(font) == SelectSeq(font.glyphs, LAMBDA g : g \in font.export)

\* Faulty variant of expand_layers: master by master, and within a master
\* glyph by glyph.
expand_layers_by_master(glyphs, masters) ==
  LET n == Len(glyphs)
      pairs == [i \in 1..(Len(masters) * n) |->
                  Layer(glyphs[((i - 1) % n) + 1], masters[((i - 1) \div n) + 1])]
  IN  SelectSeq(pairs, LAMBDA L : HasLayer(L.g, L.m))

\* for g in glyphs: for m in masters: L = g.layers[m.id]; if L: append.
expand_layers(glyphs, masters) ==
  LET n == Len(masters)
      pairs == [i \in 1..(Len(glyphs) * n) |->
                  Layer(glyphs[((i - 1) \div n) + 1], masters[((i - 1) % n) + 1])]
  IN  SelectSeq(pairs, LAMBDA L : HasLayer(L.g, L.m))

NoErr == "none"

Resolved(layers) == [layers |-> layers, err |-> NoErr]

Refused(msg) == [layers |-> <<>>, err |-> msg]

\* _collect_layers (the same code in both tools): (layers, err).
collect_layers(font, scopeIdx, masterMode) ==
  IF ~font.open THEN Refused("No font open.")
  ELSE IF scopeIdx = 0
  THEN IF font.sel = <<>> THEN Refused("Select one or more layers first.")
       ELSE Resolved(font.sel)
  ELSE
    LET masters == IF masterMode = 0
                   THEN (IF font.cur # NoMaster THEN <<font.cur>> ELSE <<>>)
                   ELSE font.masters
        glyphs == IF scopeIdx = 1 THEN selected_glyphs(font)
                  ELSE exportable_glyphs(font)
        layers == expand_layers(glyphs, masters)
    IN  IF masters = <<>> THEN Refused("No masters found.")
        ELSE IF glyphs = <<>>
        THEN (IF scopeIdx = 1 THEN Refused("No selected glyphs found.")
              ELSE Refused("No exportable glyphs found."))
        ELSE IF layers = <<>> THEN Refused("No layers found for the chosen scope.")
        ELSE Resolved(layers)

\* ------------------------------------------------------------ Grid Snapper scan
\* f"{v:.2f}" and f"{v:.0f}": the value rounded to hundredths and to units
\* (counted in hundredths and in units).
Fmt2(v) == PyRoundDiv(v, Unit \div 100)

Fmt0(v) == PyRoundDiv(v, Unit)

Unchanged == <<>>

\* A component the scan passes over: no op, no report line.
NoVisit(c) == [hit |-> FALSE, c |-> c, sNew |-> NoTransform, line |-> <<>>]

\* Faulty variant of grid_hit: the op's linear part is reset to the identity.
grid_hit_upright(c, s, X, Y, cm) ==
  [hit |-> X.changed \/ Y.changed,
   c |-> c,
   sNew |-> <<1, 0, 0, 1, X.newV, Y.newV>>,
   line |-> [name |-> cm[c].base,
             x |-> IF X.changed THEN <<Fmt2(s[5]), Fmt0(X.newV)>> ELSE Unchanged,
             y |-> IF Y.changed THEN <<Fmt2(s[6]), Fmt0(Y.newV)>> ELSE Unchanged]]

\* The op (comp, sNew) and the "   - name  (tX a->b, tY c->d)" line that
\* GridSnapperUI._scan makes of a component whose transform s reads, X and Y
\* being what snap_if_within returned for its tX and tY.
grid_hit(c, s, X, Y, cm) ==
  [hit |-> X.changed \/ Y.changed,
   c |-> c,
   sNew |-> <<s[1], s[2], s[3], s[4], X.newV, Y.newV>>,
   line |-> [name |-> cm[c].base,
             x |-> IF X.changed THEN <<Fmt2(s[5]), Fmt0(X.newV)>> ELSE Unchanged,
             y |-> IF Y.changed THEN <<Fmt2(s[6]), Fmt0(Y.newV)>> ELSE Unchanged]]

grid_read(c, s, step, tol, cm) ==
  IF s = NoTransform THEN NoVisit(c)
  ELSE grid_hit(c, s, snap_if_within(s[5], step, tol), snap_if_within(s[6], step, tol), cm)

\* One pass of the component loop of GridSnapperUI._scan.
grid_visit(c, step, tol, tr, cm) ==
  grid_read(c, get_transform_struct(c, tr, cm), step, tol, cm)

\* The visits of one layer that qualify, in component order.
grid_layer_hits(L, step, tol, tr, cm) ==
  SelectSeq([i \in 1..Len(ComponentsOf(L)) |->
               grid_visit(ComponentsOf(L)[i], step, tol, tr, cm)],
            LAMBDA v : v.hit)

RECURSIVE Flatten(_)
Flatten(seqs) == IF seqs = <<>> THEN <<>> ELSE Head(seqs) \o Flatten(Tail(seqs))

RECURSIVE total_comps(_)
total_comps(layers) ==
  IF layers = <<>> THEN 0
  ELSE Len(ComponentsOf(Head(layers))) + total_comps(Tail(layers))

\* What _scan returns (the same shape in both tools), hits[i] being the
\* qualifying visits of layers[i]: (text, ops).  The ops are appended layer by
\* layer, component by component.  The text is kept as its parts: the header
\* numbers and, for each layer with a hit, its group of lines (no group: the
\* "No components qualify" text).
scan_result(layers, hits, step, tol) ==
  [text |-> [layers |-> Len(layers),
             comps |-> total_comps(layers),
             found |-> Len(Flatten(hits)),
             step |-> step,
             tol |-> tol,
             lines |-> SelectSeq([i \in 1..Len(layers) |->
                                    [glyph |-> layers[i].g, layer |-> layers[i].m,
                                     hits |-> [j \in 1..Len(hits[i]) |-> hits[i][j].line]]],
                                 LAMBDA g : g.hits # <<>>)],
   ops |-> [k \in 1..Len(Flatten(hits)) |->
              <<Flatten(hits)[k].c, Flatten(hits)[k].sNew>>]]

\* GridSnapperUI._scan
Grid_scan(layers, step, tol, tr, cm) ==
  scan_result(layers,
              [i \in 1..Len(layers) |-> grid_layer_hits(layers[i], step, tol, tr, cm)],
              step, tol)

\* -------------------------------------------------------- TransactionalApplier
\* A host call, as the host sees it.  A transform write names the component,
\* the transform handed over, whether it took effect, and the accessor that
\* took it.
Call(op) == [op |-> op, c |-> 0, s |-> NoTransform, ok |-> TRUE, via |-> "none"]

SetCall(c, s, r) == [op |-> "set_transform", c |-> c, s |-> s, ok |-> r.ok, via |-> r.via]

\* Faulty variant of write_ops: a write lands on every component that places
\* the same base glyph.
RECURSIVE write_ops_spilling(_, _, _)
write_ops_spilling(ops, tr, cm) ==
  IF ops = <<>> THEN [tr |-> tr, log |-> <<>>, fixed |-> 0]
  ELSE LET c == Head(ops)[1]
           sNew == Head(ops)[2]
           r == set_transform_struct(c, sNew, cm)
           tr1 == IF r.ok
                  THEN [d \in DOMAIN tr |-> IF cm[d].base = cm[c].base THEN sNew ELSE tr[d]]
                  ELSE tr
           rest == write_ops_spilling(Tail(ops), tr1, cm)
       IN  [tr |-> rest.tr,
            log |-> <<SetCall(c, sNew, r)>> \o rest.log,
            fixed |-> rest.fixed + (IF r.ok THEN 1 ELSE 0)]

\* Faulty variant of write_ops: the loop ends at the first write that fails.
RECURSIVE write_ops_until_failure(_, _, _)
write_ops_until_failure(ops, tr, cm) ==
  IF ops = <<>> THEN [tr |-> tr, log |-> <<>>, fixed |-> 0]
  ELSE LET c == Head(ops)[1]
           sNew == Head(ops)[2]
           r == set_transform_struct(c, sNew, cm)
           rest == write_ops_until_failure(Tail(ops), [tr EXCEPT ![c] = sNew], cm)
       IN  IF r.ok
           THEN [tr |-> rest.tr, log |-> <<SetCall(c, sNew, r)>> \o rest.log,
                 fixed |-> 1 + rest.fixed]
           ELSE [tr |-> tr, log |-> <<SetCall(c, sNew, r)>>, fixed |-> 0]

\* Faulty variant of write_ops: before each write the op is looked at again,
\* and dropped if the component already holds its transform.
RECURSIVE write_ops_rederived(_, _, _)
write_ops_rederived(ops, tr, cm) ==
  IF ops = <<>> THEN [tr |-> tr, log |-> <<>>, fixed |-> 0]
  ELSE LET c == Head(ops)[1]
           sNew == Head(ops)[2]
           r == set_transform_struct(c, sNew, cm)
           rest == write_ops_rederived(Tail(ops),
                     IF r.ok THEN [tr EXCEPT ![c] = sNew] ELSE tr, cm)
       IN  IF tr[c] = sNew THEN write_ops_rederived(Tail(ops), tr, cm)
           ELSE [tr |-> rest.tr,
                 log |-> <<SetCall(c, sNew, r)>> \o rest.log,
                 fixed |-> (IF r.ok THEN 1 ELSE 0) + rest.fixed]

\* Faulty variant of write_ops: a write that succeeds leaves the component's
\* transform as it was.
RECURSIVE write_ops_not_stored(_, _, _)
write_ops_not_stored(ops, tr, cm) ==
  IF ops = <<>> THEN [tr |-> tr, log |-> <<>>, fixed |-> 0]
  ELSE LET c == Head(ops)[1]
           sNew == Head(ops)[2]
           r == set_transform_struct(c, sNew, cm)
           rest == write_ops_not_stored(Tail(ops), tr, cm)
       IN  [tr |-> tr,
            log |-> <<SetCall(c, sNew, r)>> \o rest.log,
            fixed |-> (IF r.ok THEN 1 ELSE 0) + rest.fixed]

\* for comp, sNew in ops: if set_transform_struct(comp, sNew): fixed += 1
RECURSIVE write_ops(_, _, _)
write_ops(ops, tr, cm) ==
  IF ops = <<>> THEN [tr |-> tr, log |-> <<>>, fixed |-> 0]
  ELSE LET c == Head(ops)[1]
           sNew == Head(ops)[2]
           r == set_transform_struct(c, sNew, cm)
           tr1 == IF r.ok THEN [tr EXCEPT ![c] = sNew] ELSE tr
           rest == write_ops(Tail(ops), tr1, cm)
       IN  [tr |-> rest.tr,
            log |-> <<SetCall(c, sNew, r)>> \o rest.log,
            fixed |-> (IF r.ok THEN 1 ELSE 0) + rest.fixed]

\* begin_doc_undo_group: the undo manager with its group opened, or None.
begin_doc_undo_group(font) == font.um

\* Faulty variant of apply_ops: end_doc_undo_group is skipped when a write
\* failed.
apply_ops_leaving_open(font, ops, tr, cm) ==
  LET um == begin_doc_undo_group(font)
      w == write_ops(ops, tr, cm)
  IN  [tr |-> w.tr,
       fixed |-> w.fixed,
       um |-> um,
       calls |-> <<Call("disableUpdateInterface")>>
                   \o (IF um THEN <<Call("beginUndoGrouping")>> ELSE <<>>)
                   \o w.log
                   \o (IF um /\ w.fixed = Len(ops) THEN <<Call("endUndoGrouping")>> ELSE <<>>)
                   \o <<Call("enableUpdateInterface")>>
                   \o (IF font.tab THEN <<Call("currentTab.redraw")>> ELSE <<>>)
                   \o <<Call("Glyphs.redraw")>>]

\* Faulty variant of apply_ops: the writes come before redraw is suspended
\* and the undo group is opened.
apply_ops_unsuspended(font, ops, tr, cm) ==
  LET um == begin_doc_undo_group(font)
      w == write_ops(ops, tr, cm)
  IN  [tr |-> w.tr,
       fixed |-> w.fixed,
       um |-> um,
       calls |-> w.log
                   \o <<Call("disableUpdateInterface")>>
                   \o (IF um THEN <<Call("beginUndoGrouping")>> ELSE <<>>)
                   \o (IF um THEN <<Call("endUndoGrouping")>> ELSE <<>>)
                   \o <<Call("enableUpdateInterface")>>
                   \o (IF font.tab THEN <<Call("currentTab.redraw")>> ELSE <<>>)
                   \o <<Call("Glyphs.redraw")>>]

\* Faulty variant of apply_ops: every write gets an undo group of its own.
apply_ops_group_per_write(font, ops, tr, cm) ==
  LET um == begin_doc_undo_group(font)
      w == write_ops(ops, tr, cm)
  IN  [tr |-> w.tr,
       fixed |-> w.fixed,
       um |-> um,
       calls |-> <<Call("disableUpdateInterface")>>
                   \o Flatten([i \in 1..Len(w.log) |->
                                IF um THEN <<Call("beginUndoGrouping"), w.log[i],
                                             Call("endUndoGrouping")>>
                                ELSE <<w.log[i]>>])
                   \o <<Call("enableUpdateInterface")>>
                   \o (IF font.tab THEN <<Call("currentTab.redraw")>> ELSE <<>>)
                   \o <<Call("Glyphs.redraw")>>]

\* The part of run() after the scan found ops (the same code in both tools):
\* disableUpdateInterface, begin_doc_undo_group, the write loop, and in the
\* finally block end_doc_undo_group, enableUpdateInterface and the redraws.
apply_ops(font, ops, tr, cm) ==
  LET um == begin_doc_undo_group(font)
      w == write_ops(ops, tr, cm)
  IN  [tr |-> w.tr,
       fixed |-> w.fixed,
       um |-> um,
       calls |-> <<Call("disableUpdateInterface")>>
                   \o (IF um THEN <<Call("beginUndoGrouping")>> ELSE <<>>)
                   \o w.log
                   \o (IF um THEN <<Call("endUndoGrouping")>> ELSE <<>>)
                   \o <<Call("enableUpdateInterface")>>
                   \o (IF font.tab THEN <<Call("currentTab.redraw")>> ELSE <<>>)
                   \o <<Call("Glyphs.redraw")>>]

\* ---------------------------------------------------------------- mirror maths
det_of(s) == s[1] * s[4] - s[2] * s[3]

\* Faulty variant of is_reflected: a determinant of 0 counts as reflected.
is_reflected_or_flat(c, tr, cm) ==
  LET s == get_transform_struct(c, tr, cm)
  IN  IF s = NoTransform THEN FALSE ELSE det_of(s) <= 0

is_reflected(c, tr, cm) ==
  LET s == get_transform_struct(c, tr, cm)
  IN  IF s = NoTransform THEN FALSE ELSE det_of(s) < 0

\* apply_affine_to_point, as <<X, Y>>.
apply_affine_to_point(x, y, s) ==
  <<s[1] * x + s[3] * y + s[5], s[2] * x + s[4] * y + s[6]>>

\* (min(xs), min(ys), max(xs), max(ys)) of four points.
box_of(p1, p2, p3, p4) ==
  <<Min2(Min2(p1[1], p2[1]), Min2(p3[1], p4[1])),
    Min2(Min2(p1[2], p2[2]), Min2(p3[2], p4[2])),
    Max2(Max2(p1[1], p2[1]), Max2(p3[1], p4[1])),
    Max2(Max2(p1[2], p2[2]), Max2(p3[2], p4[2]))>>

\* bbox_from_transformed_base_bounds: the box of the four transformed corners.
bbox_from_transformed_base_bounds(baseBBox, s) ==
  box_of(apply_affine_to_point(baseBBox[1], baseBBox[2], s),
         apply_affine_to_point(baseBBox[1], baseBBox[4], s),
         apply_affine_to_point(baseBBox[3], baseBBox[2], s),
         apply_affine_to_point(baseBBox[3], baseBBox[4], s))

\* center_of: ((b0 + b2) * 0.5, (b1 + b3) * 0.5); exact here for boxes whose
\* coordinates are even numbers of micro-units, as all boxes of the model are.
center_of(b) == <<(b[1] + b[3]) \div 2, (b[2] + b[4]) \div 2>>

\* Faulty variant of delta_to_match: the vertical delta is left out.
delta_to_match_x_only(beforeB, afterB, mode) ==
  IF mode = "center"
  THEN <<center_of(beforeB)[1] - center_of(afterB)[1], 0>>
  ELSE <<beforeB[1] - afterB[1], 0>>

\* Faulty variant of delta_to_match: the delta taken the other way round.
delta_to_match_reversed(beforeB, afterB, mode) ==
  IF mode = "center"
  THEN <<center_of(afterB)[1] - center_of(beforeB)[1],
         center_of(afterB)[2] - center_of(beforeB)[2]>>
  ELSE <<afterB[1] - beforeB[1], afterB[2] - beforeB[2]>>

delta_to_match(beforeB, afterB, mode) ==
  IF mode = "center"
  THEN <<center_of(beforeB)[1] - center_of(afterB)[1],
         center_of(beforeB)[2] - center_of(afterB)[2]>>
  ELSE <<beforeB[1] - afterB[1], beforeB[2] - afterB[2]>>

\* Faulty variant of flipX_in_component_space: only m11 is negated.
flipX_first_entry_only(s) == <<-s[1], s[2], s[3], s[4], s[5], s[6]>>

flipX_in_component_space(s) == <<-s[1], -s[2], s[3], s[4], s[5], s[6]>>

flipY_in_component_space(s) == <<s[1], s[2], -s[3], -s[4], s[5], s[6]>>

NoPick == [axis |-> "none", s |-> NoTransform, dx |-> 0, dy |-> 0, score |-> 0]

\* One (axis, sF, dx, dy, score) entry of cands, d being the delta that puts
\* the flipped box back on the anchor.
scored(axis, sF, d) ==
  [axis |-> axis, s |-> sF, dx |-> d[1], dy |-> d[2], score |-> Abs(d[1]) + Abs(d[2])]

\* The entry for the flip sF, if its determinant is >= 0.
candidate(axis, sF, beforeB, baseB, anchor) ==
  IF det_of(sF) >= 0
  THEN <<scored(axis, sF,
                delta_to_match(beforeB, bbox_from_transformed_base_bounds(baseB, sF),
                               anchor))>>
  ELSE <<>>

\* Faulty variant of candidates: the X flip is tried first.
candidates_x_first(beforeB, baseB, s, anchor) ==
  candidate("X", flipX_in_component_space(s), beforeB, baseB, anchor)
    \o candidate("Y", flipY_in_component_space(s), beforeB, baseB, anchor)

\* The cands list of choose_best_fix: the Y flip first, then the X flip.
candidates(beforeB, baseB, s, anchor) ==
  candidate("Y", flipY_in_component_space(s), beforeB, baseB, anchor)
    \o candidate("X", flipX_in_component_space(s), beforeB, baseB, anchor)

\* Faulty variant of first_least: the last candidate of least score.
last_least(cands) ==
  cands[CHOOSE i \in 1..Len(cands) :
          /\ \A j \in 1..Len(cands) : cands[i].score <= cands[j].score
          /\ \A j \in (i + 1)..Len(cands) : cands[j].score > cands[i].score]

\* sorted(cands, key=score)[0]: the sort is stable, so the first candidate of
\* least score.
first_least(cands) ==
  cands[CHOOSE i \in 1..Len(cands) :
          /\ \A j \in 1..Len(cands) : cands[i].score <= cands[j].score
          /\ \A j \in 1..(i - 1) : cands[j].score > cands[i].score]

\* Faulty variant of pick_from: the preferred axis is not looked at.
pick_from_any(cands, prefer) ==
  IF cands = <<>> THEN NoPick ELSE first_least(cands)

\* The part of choose_best_fix after cands is built.
pick_from(cands, prefer) ==
  IF cands = <<>> THEN NoPick
  ELSE IF prefer = "vertical" /\ SelectSeq(cands, LAMBDA c : c.axis = "Y") # <<>>
  THEN SelectSeq(cands, LAMBDA c : c.axis = "Y")[1]
  ELSE IF prefer = "horizontal" /\ SelectSeq(cands, LAMBDA c : c.axis = "X") # <<>>
  THEN SelectSeq(cands, LAMBDA c : c.axis = "X")[1]
  ELSE first_least(cands)

choose_best_fix(beforeB, baseB, s, prefer, anchor) ==
  pick_from(candidates(beforeB, baseB, s, anchor), prefer)

\* base_bounds_for_component_glyph with layer_bounds_complete: the outline
\* bounds of the component's base glyph for the master, or None when the
\* outline is empty.
base_bounds_for_component_glyph(c, masterId, cm) == OutlineBounds(cm[c].base)

\* MirrorMenderUI._settings
settings(methodIdx, anchorIdx) ==
  [prefer |-> IF methodIdx = 1 THEN "vertical"
              ELSE IF methodIdx = 2 THEN "horizontal" ELSE "auto",
   anchor |-> IF anchorIdx = 1 THEN "center" ELSE "bottomleft"]

\* ------------------------------------------------------------ Mirror Mender scan
\* The op and the "   - name  (fix Y, dx=.., dy=..)" line of a reflected
\* component for the flip picked, sNew being the flip moved by (dx, dy); none
\* if sNew is still a reflection.
mirror_hit(c, pick, sNew, cm) ==
  IF det_of(sNew) < 0 THEN NoVisit(c)
  ELSE [hit |-> TRUE, c |-> c, sNew |-> sNew,
        line |-> [name |-> cm[c].base, axis |-> pick.axis,
                  dx |-> Fmt0(pick.dx), dy |-> Fmt0(pick.dy)]]

mirror_picked(c, pick, cm) ==
  IF pick = NoPick THEN NoVisit(c)
  ELSE mirror_hit(c, pick,
                  <<pick.s[1], pick.s[2], pick.s[3], pick.s[4],
                    pick.s[5] + pick.dx, pick.s[6] + pick.dy>>, cm)

mirror_read(c, s, baseB, prefer, anchor, cm) ==
  IF s = NoTransform \/ baseB = NoBounds THEN NoVisit(c)
  ELSE mirror_picked(c,
         choose_best_fix(bbox_from_transformed_base_bounds(baseB, s), baseB, s,
                         prefer, anchor),
         cm)

\* One pass of the component loop of MirrorMenderUI._scan.
mirror_visit(c, masterId, prefer, anchor, tr, cm) ==
  IF ~is_reflected(c, tr, cm) THEN NoVisit(c)
  ELSE mirror_read(c, get_transform_struct(c, tr, cm),
                   base_bounds_for_component_glyph(c, masterId, cm), prefer, anchor, cm)

mirror_layer_hits(L, prefer, anchor, tr, cm) ==
  SelectSeq([i \in 1..Len(ComponentsOf(L)) |->
               mirror_visit(ComponentsOf(L)[i], L.m, prefer, anchor, tr, cm)],
            LAMBDA v : v.hit)

\* MirrorMenderUI._scan
Mirror_scan(layers, prefer, anchor, tr, cm) ==
  scan_result(layers,
              [i \in 1..Len(layers) |-> mirror_layer_hits(layers[i], prefer, anchor, tr, cm)],
              0, 0)

\* ------------------------------------------------------------------ callbacks
NoText == [layers |-> 0, comps |-> 0, found |-> 0, step |-> 0, tol |-> 0,
           lines |-> <<>>]

Said(msg, n) == [msg |-> msg, n |-> n]

ShowsInitial == [kind |-> "initial", msg |-> "", text |-> NoText]

ShowsMessage(msg) == [kind |-> "message", msg |-> msg, text |-> NoText]

\* Faulty variant of ShowsReport: the report is appended to the one shown.
ShowsReport_appending(text) ==
  [kind |-> "report", msg |-> "",
   text |-> IF preview.kind = "report"
            THEN [text EXCEPT !.lines = preview.text.lines \o text.lines]
            ELSE text]

ShowsReport(text) == [kind |-> "report", msg |-> "", text |-> text]

\* What a callback did: err (the message of a refused input, or NoErr), the
\* resolved layers, the scan's result when it scanned, the transforms and the
\* host calls it leaves behind, and what it printed.
Refusal(msg, tr) ==
  [err |-> msg, layers |-> <<>>, scanned |-> FALSE, text |-> NoText, ops |-> <<>>,
   applied |-> FALSE, tr |-> tr, fixed |-> 0, um |-> FALSE, calls |-> <<>>,
   printed |-> <<Said(msg, 0)>>]

Scanned(layers, sc, tr, out) ==
  [err |-> NoErr, layers |-> layers, scanned |-> TRUE, text |-> sc.text,
   ops |-> sc.ops, applied |-> FALSE, tr |-> tr, fixed |-> 0, um |-> FALSE,
   calls |-> <<>>, printed |-> out]

\* print(title); print(f"{verb} {fixed} component(s)."); print("Done.")
Applied(layers, sc, a, title, verb) ==
  [err |-> NoErr, layers |-> layers, scanned |-> TRUE, text |-> sc.text,
   ops |-> sc.ops, applied |-> TRUE, tr |-> a.tr, fixed |-> a.fixed, um |-> a.um,
   calls |-> a.calls,
   printed |-> <<Said(title, 0), Said(verb, a.fixed), Said("Done.", 0)>>]

\* Faulty variant of run_scanned: an empty op list is applied like any other.
run_scanned_regardless(font, layers, sc, tr, cm, nothing, title, verb) ==
  Applied(layers, sc, apply_ops(font, sc.ops, tr, cm), title, verb)

\* The part of run() after the scan (the same code in both tools): show the
\* report, stop with a message if there are no ops, else apply them.
run_scanned(font, layers, sc, tr, cm, nothing, title, verb) ==
  IF sc.ops = <<>> THEN Scanned(layers, sc, tr, <<Said(nothing, 0)>>)
  ELSE Applied(layers, sc, apply_ops(font, sc.ops, tr, cm), title, verb)

\* Faulty variant of grid_refusal: the tolerance is not checked.
grid_refusal_step_only(step, tol) ==
  IF step <= 0 THEN "Step must be > 0." ELSE NoErr

\* The step and tolerance checks of the Grid Snapper's callbacks.
grid_refusal(step, tol) ==
  IF step <= 0 THEN "Step must be > 0."
  ELSE IF tol < 0 THEN "Tolerance must be >= 0."
  ELSE NoErr

\* GridSnapperUI.run, past _collect_layers.
Grid_run_in(font, cl, step, tol, tr, cm) ==
  IF cl.err # NoErr THEN Refusal(cl.err, tr)
  ELSE IF grid_refusal(step, tol) # NoErr THEN Refusal(grid_refusal(step, tol), tr)
  ELSE run_scanned(font, cl.layers, Grid_scan(cl.layers, step, tol, tr, cm), tr, cm,
                   "Nothing to snap.", "Grid Snapper", "Snapped")

\* GridSnapperUI.run
Grid_run(font, scopeIdx, masterMode, stepField, tolField, tr, cm) ==
  Grid_run_in(font, collect_layers(font, scopeIdx, masterMode),
              parseFloat(stepField, 25 * Unit), parseFloat(tolField, 0), tr, cm)

\* GridSnapperUI.doPreview, past _collect_layers.
Grid_doPreview_in(cl, step, tol, tr, cm) ==
  IF cl.err # NoErr THEN Refusal(cl.err, tr)
  ELSE IF grid_refusal(step, tol) # NoErr THEN Refusal(grid_refusal(step, tol), tr)
  ELSE Scanned(cl.layers, Grid_scan(cl.layers, step, tol, tr, cm), tr, <<>>)

\* Faulty variant of Grid_doPreview: Preview goes on to apply what it found.
Grid_doPreview_applying(font, scopeIdx, masterMode, stepField, tolField, tr, cm) ==
  Grid_run_in(font, collect_layers(font, scopeIdx, masterMode),
              parseFloat(stepField, 25 * Unit), parseFloat(tolField, 0), tr, cm)

\* GridSnapperUI.doPreview
Grid_doPreview(font, scopeIdx, masterMode, stepField, tolField, tr, cm) ==
  Grid_doPreview_in(collect_layers(font, scopeIdx, masterMode),
                    parseFloat(stepField, 25 * Unit), parseFloat(tolField, 0), tr, cm)

\* MirrorMenderUI.doPreview, past _collect_layers and _settings.
Mirror_doPreview_in(cl, st, tr, cm) ==
  IF cl.err # NoErr THEN Refusal(cl.err, tr)
  ELSE Scanned(cl.layers, Mirror_scan(cl.layers, st.prefer, st.anchor, tr, cm), tr, <<>>)

\* MirrorMenderUI.doPreview
Mirror_doPreview(font, scopeIdx, masterMode, methodIdx, anchorIdx, tr, cm) ==
  Mirror_doPreview_in(collect_layers(font, scopeIdx, masterMode),
                      settings(methodIdx, anchorIdx), tr, cm)

\* MirrorMenderUI.run, past _collect_layers and _settings.
Mirror_run_in(font, cl, st, tr, cm) ==
  IF cl.err # NoErr THEN Refusal(cl.err, tr)
  ELSE run_scanned(font, cl.layers, Mirror_scan(cl.layers, st.prefer, st.anchor, tr, cm),
                   tr, cm, "Nothing to fix.", "Mirror Mender", "Fixed")

\* MirrorMenderUI.run
Mirror_run(font, scopeIdx, masterMode, methodIdx, anchorIdx, tr, cm) ==
  Mirror_run_in(font, collect_layers(font, scopeIdx, masterMode),
                settings(methodIdx, anchorIdx), tr, cm)

\* The components as the write loop finds them when the document is closed
\* after k of the ops were written: the components of the later ops are no
\* longer attached to a document and refuse the write.
closing(cm, ops, k) ==
  [c \in Comps |->
     IF \E i \in (k + 1)..Len(ops) : ops[i][1] = c
     THEN [cm[c] EXCEPT !.wr = "stale"] ELSE cm[c]]

Mirror_run_closing_in(font, layers, sc, k, tr, cm) ==
  run_scanned(font, layers, sc, tr, closing(cm, sc.ops, k),
              "Nothing to fix.", "Mirror Mender", "Fixed")

\* MirrorMenderUI.run on a document that is closed while the write loop runs,
\* after k of the ops were written.
Mirror_run_closing(font, scopeIdx, masterMode, methodIdx, anchorIdx, k, tr, cm) ==
  IF collect_layers(font, scopeIdx, masterMode).err # NoErr
  THEN Refusal(collect_layers(font, scopeIdx, masterMode).err, tr)
  ELSE Mirror_run_closing_in(font, collect_layers(font, scopeIdx, masterMode).layers,
         Mirror_scan(collect_layers(font, scopeIdx, masterMode).layers,
                     settings(methodIdx, anchorIdx).prefer,
                     settings(methodIdx, anchorIdx).anchor, tr, cm),
         k, tr, cm)

IsRedraw(call) == call.op \in {"currentTab.redraw", "Glyphs.redraw"}

\* What is left of the outcome of run when Font.enableUpdateInterface(), called
\* in the finally block outside any try, raises on the closed document: the
\* redraws and the prints after it are not reached.
enable_raised(o) ==
  [o EXCEPT !.calls = SelectSeq(o.calls, LAMBDA call : ~IsRedraw(call)),
            !.printed = <<>>]

\* ------------------------------------------------------------------ Rotator Jig
\* brace_name: "{axisTag=axisValue}".
brace_name(axisTag, axisValue) == [tag |-> axisTag, v |-> axisValue]

\* The loop of build_degrees_by_step, for whole degrees.
RECURSIVE build_degrees_from(_, _, _)
build_degrees_from(d, endDeg, stepDeg) ==
  IF d < endDeg THEN <<d>> \o build_degrees_from(d + stepDeg, endDeg, stepDeg) ELSE <<>>

build_degrees_by_step(startDeg, endDeg, stepDeg) ==
  IF stepDeg <= 0 THEN <<>> ELSE build_degrees_from(startDeg + stepDeg, endDeg, stepDeg)

\* map_deg_to_axis_value: int(round(axisMin + t * (axisMaxEffective - axisMin)))
\* for t = (deg - startDeg) / (endDeg - startDeg), taken as one exact quotient.
map_deg_to_axis_value(deg, startDeg, endDeg, axisMin, axisMaxEffective) ==
  PyRoundDiv(axisMin * (endDeg - startDeg) + (deg - startDeg) * (axisMaxEffective - axisMin),
             endDeg - startDeg)

\* sorted(set(zip(axisValues, degrees)), key=lambda t: t[0]): the distinct
\* (axis value, degree) pairs by axis value; pairs of the same axis value come
\* in the order the set yields them, which is any.
sorted_pairs(axisValues, degrees) ==
  LET S == {<<axisValues[i], degrees[i]>> : i \in 1..Len(degrees)}
  IN  {p \in [1..Cardinality(S) -> S] :
         /\ \A i, j \in 1..Cardinality(S) : i < j => p[i] # p[j] /\ p[i][1] <= p[j][1]}

\* remove_existing_braces_for_master: the layers of the glyph without those of
\* the master that are named like a brace of axisValues.
remove_existing_braces_for_master(layers, masterId, axisTag, axisValues) ==
  SelectSeq(layers,
            LAMBDA L : ~(L.m = masterId
                         /\ \E i \in 1..Len(axisValues) :
                              L.name = brace_name(axisTag, axisValues[i])))

\* The layers of a glyph after its pass of the loop of run: the old braces
\* removed, then one new layer per pair, holding the base layer's shapes
\* turned by the pair's degree.
rebuild_braces(layers, masterId, axisTag, pairs, clockwise) ==
  remove_existing_braces_for_master(layers, masterId, axisTag,
                                    [i \in 1..Len(pairs) |-> pairs[i][1]])
    \o [i \in 1..Len(pairs) |->
          [m |-> masterId, name |-> brace_name(axisTag, pairs[i][1]),
           deg |-> IF clockwise THEN -pairs[i][2] ELSE pairs[i][2]]]

NoBraces == [g \in {"A", "B"} |-> <<>>]

JigIn(axisTag, axisMin, axisMax, angStart, angEnd, stepDeg, clockwise) ==
  [axisTag |-> axisTag, axisMin |-> axisMin, axisMax |-> axisMax,
   angStart |-> angStart, angEnd |-> angEnd, stepDeg |-> stepDeg,
   clockwise |-> clockwise]

NoJigIn == JigIn("", 0, 0, 0, 0, 0, FALSE)

\* What a Run of the Rotator Jig that builds nothing leaves.
jig_refused(layers) == [ran |-> FALSE, layers |-> layers, names |-> {}, glyphs |-> {}]

\* The loop of run over the selected glyphs, for the pairs in one order.
jig_built(font, inp, pairs, layers) ==
  [ran |-> TRUE,
   layers |-> [g \in DOMAIN layers |->
                 IF InSeq(g, selected_glyphs(font)) /\ HasLayer(g, font.cur)
                 THEN rebuild_braces(layers[g], font.cur, inp.axisTag, pairs, inp.clockwise)
                 ELSE layers[g]],
   names |-> {brace_name(inp.axisTag, pairs[i][1]) : i \in 1..Len(pairs)},
   glyphs |-> {g \in DOMAIN layers :
                 InSeq(g, selected_glyphs(font)) /\ HasLayer(g, font.cur)}]

\* RotationJigUI.run past the axis and angle fields: lo..hi the axis range,
\* s..e the angles.
jig_frames(font, inp, lo, hi, s, e, layers) ==
  IF e - s <= 0 \/ build_degrees_by_step(s, e, inp.stepDeg) = <<>>
     \/ selected_glyphs(font) = <<>>
  THEN {jig_refused(layers)}
  ELSE {jig_built(font, inp, pairs, layers) :
          pairs \in sorted_pairs(
                      [i \in 1..Len(build_degrees_by_step(s, e, inp.stepDeg)) |->
                         map_deg_to_axis_value(build_degrees_by_step(s, e, inp.stepDeg)[i],
                                               s, e, lo, IF hi > lo THEN hi - 1 ELSE hi)],
                      build_degrees_by_step(s, e, inp.stepDeg))}

\* RotationJigUI.run: the outcomes it can have.
jig_run(font, inp, layers) ==
  IF ~font.open \/ font.sel = <<>> \/ font.cur = NoMaster
     \/ inp.axisTag = "(no axes found)"
  THEN {jig_refused(layers)}
  ELSE jig_frames(font, inp, Min2(inp.axisMin, inp.axisMax),
                  Max2(inp.axisMin, inp.axisMax), Min2(inp.angStart, inp.angEnd),
                  Max2(inp.angStart, inp.angEnd), layers)

\* ---------------------------------------------------------- the host's side
\* How many of the calls are op.
Count(log, op) == Cardinality({i \in 1..Len(log) : log[i].op = op})

IsWrite(call) == call.op = "set_transform"

NotAgain == [again |-> FALSE, sameScope |-> FALSE, ops |-> 0, fixed |-> 0, comps |-> {}]

\* How many undoable actions the undo stack keeps; the oldest is dropped when
\* one more is pushed.
MaxUndo == 1

push_undo(stack, snap) ==
  IF Len(stack) >= MaxUndo THEN Append(Tail(stack), snap) ELSE Append(stack, snap)

NoGroup == [open |-> FALSE, dirty |-> FALSE, snap |-> <<>>]

\* The undo stack after the host calls of log, made on transforms tr with the
\* undo group grp: beginUndoGrouping opens a group, a write that succeeds
\* inside it is registered with it, and endUndoGrouping closes it and, if
\* anything was registered, pushes it as one undoable action (kept here as the
\* transforms undoing it restores).
RECURSIVE record_undo(_, _, _, _)
record_undo(log, tr, grp, stack) ==
  IF log = <<>> THEN stack
  ELSE IF Head(log).op = "beginUndoGrouping"
  THEN record_undo(Tail(log), tr, [open |-> TRUE, dirty |-> FALSE, snap |-> tr], stack)
  ELSE IF Head(log).op = "endUndoGrouping"
  THEN record_undo(Tail(log), tr, NoGroup,
                   IF grp.open /\ grp.dirty THEN push_undo(stack, grp.snap) ELSE stack)
  ELSE IF IsWrite(Head(log)) /\ Head(log).ok
  THEN record_undo(Tail(log), [tr EXCEPT ![Head(log).c] = Head(log).s],
                   [grp EXCEPT !.dirty = grp.open], stack)
  ELSE record_undo(Tail(log), tr, grp, stack)

\* um.undo(): the last undoable action is taken back and leaves the stack.
undo(stack, tr) ==
  IF stack = <<>> THEN [tr |-> tr, stack |-> stack]
  ELSE [tr |-> stack[Len(stack)], stack |-> SubSeq(stack, 1, Len(stack) - 1)]

NotUndone == [afterApply |-> FALSE, was |-> <<>>]

NotBefore == [same |-> FALSE, preview |-> ShowsInitial, ops |-> <<>>]

\* How many button presses can wait for the UI thread.
MaxQueue == 2

\* Faulty variant of idle: a callback that is running does not keep the UI
\* thread.
idle_or_running(u) == TRUE

\* Whether the UI thread is free to handle a press: a callback, once called,
\* runs on it to its return; it starts no thread and hands control back
\* nowhere.
idle(u) == u.active = <<>>

\* The callback returns: the UI thread is free again.
returned(u) == [u EXCEPT !.active = IF @ = <<>> THEN @ ELSE Tail(@)]

\* The state a callback leaves: the document, the panel, and the traces.
\* before tells whether this callback, a Preview or a Run, is pressed right
\* after a Preview of the same tool with the same settings, and what the text
\* box showed and which ops the scan had found then.
\* rerun tells whether this callback is a Run pressed right after a Run of the
\* same tool over the same scope that got past its input checks (sameScope),
\* whether the other panel settings were the same too (again), how many ops
\* that earlier Run had, for which components, and how many it wrote.
Leave(tool, kind, inp, o) ==
  /\ pre' = transform
  /\ transform' = o.tr
  /\ calls' = o.calls
  /\ printed' = o.printed
  /\ preview' = IF o.scanned THEN ShowsReport(o.text)
                ELSE IF kind = "preview" THEN ShowsMessage(o.err)
                ELSE preview
  /\ suspended' = suspended + Count(o.calls, "disableUpdateInterface")
                            - Count(o.calls, "enableUpdateInterface")
  /\ undoOpen' = undoOpen + Count(o.calls, "beginUndoGrouping")
                          - Count(o.calls, "endUndoGrouping")
  /\ rerun' = IF kind = "run" /\ last.kind = "run" /\ last.tool = tool
                  /\ last.err = NoErr
                  /\ last.inp.scopeIdx = inp.scopeIdx
                  /\ last.inp.masterMode = inp.masterMode
               THEN [again |-> last.inp = inp, sameScope |-> TRUE,
                     ops |-> Len(last.ops), fixed |-> last.fixed,
                     comps |-> {last.ops[i][1] : i \in 1..Len(last.ops)}]
               ELSE NotAgain
  /\ flagged' = IF tool = "mirror" /\ o.scanned
                 THEN {c \in Comps : InSeq(Owner(c), o.layers)
                                        /\ is_reflected(c, transform, comps)}
                 ELSE {}
  /\ undoStack' = record_undo(o.calls, transform, NoGroup, undoStack)
  /\ undone' = NotUndone
  /\ ui' = returned(ui)
  /\ UNCHANGED jig
  /\ before' = IF last.kind = "preview" /\ last.tool = tool /\ last.inp = inp
                THEN [same |-> TRUE, preview |-> preview, ops |-> last.ops]
                ELSE NotBefore
  /\ last' = [tool |-> tool, kind |-> kind, inp |-> inp, err |-> o.err,
              layers |-> o.layers, scanned |-> o.scanned, ops |-> o.ops,
              applied |-> o.applied, fixed |-> o.fixed]

GridIn(scopeIdx, masterMode, stepField, tolField) ==
  [scopeIdx |-> scopeIdx, masterMode |-> masterMode,
   step |-> parseFloat(stepField, 25 * Unit), tol |-> parseFloat(tolField, 0),
   methodIdx |-> 0, anchorIdx |-> 0]

MirrorIn(scopeIdx, masterMode, methodIdx, anchorIdx) ==
  [scopeIdx |-> scopeIdx, masterMode |-> masterMode, step |-> 0, tol |-> 0,
   methodIdx |-> methodIdx, anchorIdx |-> anchorIdx]

\* The Preview button of the Grid Snapper.
GridPreview(scopeIdx, masterMode, stepField, tolField) ==
  /\ \E o \in {Grid_doPreview(host, scopeIdx, masterMode, stepField, tolField,
                              transform, comps)} :
       Leave("grid", "preview", GridIn(scopeIdx, masterMode, stepField, tolField), o)
  /\ UNCHANGED <<host, comps>>

\* The Run button of the Grid Snapper.
GridRun(scopeIdx, masterMode, stepField, tolField) ==
  /\ \E o \in {Grid_run(host, scopeIdx, masterMode, stepField, tolField,
                        transform, comps)} :
       Leave("grid", "run", GridIn(scopeIdx, masterMode, stepField, tolField), o)
  /\ UNCHANGED <<host, comps>>

\* The Preview button of the Mirror Mender.
MirrorPreview(scopeIdx, masterMode, methodIdx, anchorIdx) ==
  /\ \E o \in {Mirror_doPreview(host, scopeIdx, masterMode, methodIdx, anchorIdx,
                                transform, comps)} :
       Leave("mirror", "preview", MirrorIn(scopeIdx, masterMode, methodIdx, anchorIdx), o)
  /\ UNCHANGED <<host, comps>>

\* The Run button of the Mirror Mender.
MirrorRun(scopeIdx, masterMode, methodIdx, anchorIdx) ==
  /\ \E o \in {Mirror_run(host, scopeIdx, masterMode, methodIdx, anchorIdx,
                          transform, comps)} :
       Leave("mirror", "run", MirrorIn(scopeIdx, masterMode, methodIdx, anchorIdx), o)
  /\ UNCHANGED <<host, comps>>

\* ------------------------------------------------------ documents and panels
Kind(t, base, rd, wr) == [t |-> t, base |-> base, rd |-> rd, wr |-> wr]

Placed(lin, x, y) == <<lin[1], lin[2], lin[3], lin[4], x, y>>

Upright == <<1, 0, 0, 1>>

FlippedV == <<1, 0, 0, -1>>

FlippedH == <<-1, 0, 0, 1>>

Turned == <<0, 1, -1, 0>>

Font(sel, um, tab) ==
  [open |-> TRUE, sel |-> sel, cur |-> "m1", masters |-> AllMasters,
   glyphs |-> AllGlyphs, export |-> {"A", "B"}, um |-> um, tab |-> tab]

NoFont == [Font(<<>>, FALSE, FALSE) EXCEPT !.open = FALSE]

NoMasters(sel) == [Font(sel, TRUE, TRUE) EXCEPT !.cur = NoMaster, !.masters = <<>>]

NothingExported(sel) == [Font(sel, TRUE, TRUE) EXCEPT !.export = {}]

NoCallback ==
  [tool |-> "none", kind |-> "none",
   inp |-> [scopeIdx |-> 0, masterMode |-> 0, step |-> 0, tol |-> 0,
            methodIdx |-> 0, anchorIdx |-> 0],
   err |-> NoErr, layers |-> <<>>, scanned |-> FALSE, ops |-> <<>>,
   applied |-> FALSE, fixed |-> 0]

\* doc_undo_once: whether um.undo() is called.
doc_undo_once(font) == font.um

\* reset() (the same code in both tools): the transforms, the undo stack and
\* the host calls it leaves.
reset(font, tr, stack) ==
  IF ~font.open THEN [tr |-> tr, stack |-> stack, calls |-> <<>>]
  ELSE [tr |-> IF doc_undo_once(font) THEN undo(stack, tr).tr ELSE tr,
        stack |-> IF doc_undo_once(font) THEN undo(stack, tr).stack ELSE stack,
        calls |-> (IF doc_undo_once(font) THEN <<Call("undo")>> ELSE <<>>)
                    \o (IF font.tab THEN <<Call("currentTab.redraw")>> ELSE <<>>)
                    \o <<Call("Glyphs.redraw")>>]

\* What a Reset leaves.  undone tells whether it was pressed right after a
\* Run that wrote at least one transform, and what the transforms were when
\* that Run started.
LeaveReset(tool, o) ==
  /\ pre' = transform
  /\ transform' = o.tr
  /\ undoStack' = o.stack
  /\ calls' = o.calls
  /\ undone' = IF last.kind = "run" /\ last.fixed >= 1
                THEN [afterApply |-> TRUE, was |-> pre]
                ELSE NotUndone
  /\ last' = [NoCallback EXCEPT !.tool = tool, !.kind = "reset"]
  /\ printed' = <<>>
  /\ rerun' = NotAgain
  /\ flagged' = {}
  /\ before' = NotBefore
  /\ ui' = returned(ui)
  /\ UNCHANGED <<preview, suspended, undoOpen, jig>>

\* The Run button of the Mirror Mender, the document being closed while the
\* write loop runs, after k of the ops were written; enableUpdateInterface on
\* the closed document raises or not.
MirrorRunClosing(scopeIdx, masterMode, methodIdx, anchorIdx, k, raises) ==
  /\ \E o \in {Mirror_run_closing(host, scopeIdx, masterMode, methodIdx, anchorIdx, k,
                                  transform, comps)} :
       /\ o.applied
       /\ k < Len(o.ops)
       /\ Leave("mirror", "run", MirrorIn(scopeIdx, masterMode, methodIdx, anchorIdx),
                IF raises THEN enable_raised(o) ELSE o)
  /\ host' = [host EXCEPT !.open = FALSE]
  /\ UNCHANGED comps

\* The user presses the Preview or the Run button of a panel; the press waits
\* for the UI thread.
Press(tool, kind) ==
  /\ ui.buttons
  /\ Len(ui.queue) < MaxQueue
  /\ ui' = [ui EXCEPT !.queue = Append(@, <<tool, kind>>)]
  /\ UNCHANGED <<engine, jig>>

\* The UI thread takes the next press and calls the button's callback.
Begin ==
  /\ idle(ui)
  /\ ui.queue # <<>>
  /\ ui' = [ui EXCEPT !.active = <<Head(ui.queue)>> \o @, !.queue = Tail(@)]
  /\ UNCHANGED <<engine, jig>>

\* The callback the UI thread is in.
Running(tool, kind) == ui.active # <<>> /\ Head(ui.active) = <<tool, kind>>

\* The Run button of the Rotator Jig.  jig tells what the layers were before,
\* which brace names the Run generated for which glyphs, and whether it
\* repeats, with the same settings, the Run pressed right before it.
JigRun(inp) ==
  /\ \E o \in jig_run(host, inp, jig.layers) :
       jig' = [layers |-> o.layers, before |-> jig.layers, ran |-> o.ran,
               again |-> o.ran /\ jig.ran /\ jig.inp = inp,
               inp |-> inp, names |-> o.names, glyphs |-> o.glyphs]
  /\ UNCHANGED <<engine, ui>>

\* The Reset button of the Grid Snapper.
GridReset ==
  /\ \E o \in {reset(host, transform, undoStack)} : LeaveReset("grid", o)
  /\ UNCHANGED <<host, comps>>

\* The Reset button of the Mirror Mender.
MirrorReset ==
  /\ \E o \in {reset(host, transform, undoStack)} : LeaveReset("mirror", o)
  /\ UNCHANGED <<host, comps>>

\* The state after both panels are constructed, for a font among Fonts whose
\* components are of the kinds Kinds.
InitWith(Fonts, Kinds) ==
  /\ host \in Fonts
  /\ \E k \in [Comps -> Kinds] :
       /\ comps = [c \in Comps |-> [base |-> k[c].base, rd |-> k[c].rd, wr |-> k[c].wr]]
       /\ transform = [c \in Comps |-> k[c].t]
       /\ pre = [c \in Comps |-> k[c].t]
  /\ calls = <<>>
  /\ last = NoCallback
  /\ preview = ShowsInitial
  /\ printed = <<>>
  /\ suspended = 0
  /\ undoOpen = 0
  /\ rerun = NotAgain
  /\ flagged = {}
  /\ undoStack = <<>>
  /\ undone = NotUndone
  /\ before = NotBefore
  /\ ui = [buttons |-> TRUE, queue |-> <<>>, active |-> <<>>]
  /\ jig = [layers |-> NoBraces, before |-> NoBraces, ran |-> FALSE, again |-> FALSE,
            inp |-> NoJigIn, names |-> {}, glyphs |-> {}]

\* --- the whole engine: both tools, hosts that refuse and hosts that work
Selection == <<Layer("A", "m1"), Layer("B", "m1")>>

Fonts ==
  {Font(Selection, TRUE, TRUE),
   Font(Selection, FALSE, FALSE),
   Font(<<>>, TRUE, TRUE),
   NoFont,
   NoMasters(<<>>),
   NothingExported(<<>>)}

Kinds ==
  {Kind(Placed(Upright, 12 * Unit, 13 * Unit), "_dot", TRUE, "tuple"),
   Kind(Placed(Upright, 10 * Unit, 24 * Unit), "_dot", TRUE, "stale"),
   Kind(Placed(FlippedV, 50 * Unit, 150 * Unit), "_dot", TRUE, "method")}

\* What is set in the Grid Snapper's panel when a button is pressed: scope,
\* masters, and the step and tolerance fields as typed (sound ones, step 0,
\* tolerance -1 beside a step that is no number).
GridPanels ==
  {<<0, 0, Num(25 * Unit), Num(0)>>,
   <<0, 0, Num(25 * Unit), Num(5 * Unit)>>,
   <<1, 0, Num(25 * Unit), Num(0)>>,
   <<2, 1, Num(25 * Unit), Num(5 * Unit)>>,
   <<2, 1, Num(0), Num(0)>>,
   <<0, 0, NotANumber, Num(-Unit)>>}

\* What is set in the Mirror Mender's panel: scope, masters, method, anchor.
MirrorPanels == {<<0, 0, 0, 0>>, <<1, 0, 0, 1>>, <<2, 1, 2, 0>>, <<0, 0, 2, 1>>}

Init == InitWith(Fonts, Kinds)

Next ==
  \/ \E p \in GridPanels : GridPreview(p[1], p[2], p[3], p[4])
  \/ \E p \in GridPanels : GridRun(p[1], p[2], p[3], p[4])
  \/ \E p \in MirrorPanels : MirrorPreview(p[1], p[2], p[3], p[4])
  \/ \E p \in MirrorPanels : MirrorRun(p[1], p[2], p[3], p[4])

Spec == Init /\ [][Next]_vars

\* --- the Grid Snapper alone, over placements that exercise the grid formula
\* (on a document without undo manager: the scan and the writes do not depend
\* on it, and no undo history adds to the states)
GridFonts == {Font(<<Layer("A", "m1")>>, FALSE, TRUE)}

GridKinds ==
  {Kind(Placed(Upright, 12 * Unit, 13 * Unit), "_dot", TRUE, "tuple"),
   Kind(Placed(Upright, 10 * Unit, 24 * Unit), "_dot", TRUE, "tuple"),
   Kind(Placed(Upright, 25 * Unit + 1, 50 * Unit), "_dot", TRUE, "tuple"),
   Kind(Placed(FlippedV, Unit, 5 * Unit), "_dot", TRUE, "method"),
   Kind(Placed(Turned, 24 * Unit, 25 * Unit), "_dot", TRUE, "stale"),
   Kind(Placed(Upright, 13 * Unit, 12 * Unit), "_dot", FALSE, "tuple")}

GridScopes == {<<0, 0>>, <<2, 1>>}

GridFields ==
  {<<Num(25 * Unit), Num(0)>>, <<Num(25 * Unit), Num(5 * Unit)>>,
   <<Num(2 * Unit), Num(0)>>}

InitGrid == InitWith(GridFonts, GridKinds)

NextGrid ==
  \/ \E sc \in GridScopes, f \in GridFields : GridPreview(sc[1], sc[2], f[1], f[2])
  \/ \E sc \in GridScopes, f \in GridFields : GridRun(sc[1], sc[2], f[1], f[2])

SpecGrid == InitGrid /\ [][NextGrid]_vars

\* --- the Mirror Mender alone, over placements that exercise the geometry
MirrorFonts == {Font(<<Layer("A", "m1")>>, TRUE, TRUE)}

MirrorKinds ==
  {Kind(Placed(FlippedV, 50 * Unit, 150 * Unit), "_dot", TRUE, "tuple"),
   Kind(Placed(FlippedH, 24 * Unit, 10 * Unit), "_dot", TRUE, "method"),
   Kind(Placed(<<2, 1, 0, -1>>, 10 * Unit, 0), "_dot", TRUE, "tuple"),
   Kind(Placed(Turned, 0, 20 * Unit), "_dot", TRUE, "tuple"),
   Kind(Placed(FlippedV, 0, 0), "_space", TRUE, "tuple"),
   Kind(Placed(<<0, 1, 1, 0>>, 0, 0), "_dot", TRUE, "stale")}

\* The Mirror Mender's panel: scope, masters, method, anchor.
MirrorSettings ==
  {<<0, 0, me, an>> : me \in 0..2, an \in 0..1} \cup {<<2, 1, 0, 0>>, <<2, 1, 2, 1>>}

InitMirror == InitWith(MirrorFonts, MirrorKinds)

NextMirror ==
  \/ \E p \in MirrorSettings : MirrorPreview(p[1], p[2], p[3], p[4])
  \/ \E p \in MirrorSettings : MirrorRun(p[1], p[2], p[3], p[4])

SpecMirror == InitMirror /\ [][NextMirror]_vars

\* --- the Mirror Mender alone, over placements that exercise its choices: a
\* reflection whose two flips need the same move, one whose vertical flip needs
\* the smaller move, one whose horizontal flip does, a degenerate transform and
\* an upright one.
ChoiceKinds ==
  {Kind(Placed(FlippedV, 50 * Unit, 150 * Unit), "_dot", TRUE, "tuple"),
   Kind(Placed(<<2, 1, 0, -1>>, 10 * Unit, 0), "_dot", TRUE, "tuple"),
   Kind(Placed(<<-1, 0, 1, 1>>, 0, 10 * Unit), "_dot", TRUE, "method"),
   Kind(Placed(<<1, 0, 0, 0>>, 20 * Unit, 0), "_dot", TRUE, "tuple"),
   Kind(Placed(Upright, 0, 0), "_dot", TRUE, "tuple"),
   Kind(Placed(FlippedH, 30 * Unit, 0), "_dot", FALSE, "tuple")}

InitChoice == InitWith(MirrorFonts, ChoiceKinds)

SpecChoice == InitChoice /\ [][NextMirror]_vars

\* --- scope resolution: selections that repeat a layer, that are not in
\* document order and that reach into a second master, a font without masters
\* and one without exportable glyphs, under every scope and master setting
ScopeFonts ==
  {Font(<<Layer("A", "m1"), Layer("A", "m1")>>, TRUE, TRUE),
   Font(<<Layer("B", "m1"), Layer("A", "m2"), Layer("A", "m1"), Layer("B", "m1")>>,
        TRUE, FALSE),
   Font(<<Layer("A", "m2")>>, FALSE, TRUE),
   NoMasters(<<Layer("A", "m1")>>),
   NothingExported(<<Layer("B", "m1")>>)}

ScopeKinds ==
  {Kind(Placed(Upright, 12 * Unit, 13 * Unit), "_dot", TRUE, "tuple"),
   Kind(Placed(FlippedV, 50 * Unit, 150 * Unit), "_dot", TRUE, "tuple"),
   Kind(Placed(FlippedH, 25 * Unit, 10 * Unit), "_dot", TRUE, "stale")}

\* scope and masterScope, every setting
ScopePanels == {<<sc, mm>> : sc \in 0..2, mm \in 0..1}

InitScope == InitWith(ScopeFonts, ScopeKinds)

NextScope ==
  \/ \E p \in ScopePanels : GridPreview(p[1], p[2], Num(25 * Unit), Num(0))
  \/ \E p \in ScopePanels : GridRun(p[1], p[2], Num(25 * Unit), Num(0))
  \/ \E p \in ScopePanels : MirrorPreview(p[1], p[2], 0, 0)
  \/ \E p \in ScopePanels : MirrorRun(p[1], p[2], 0, 0)

SpecScope == InitScope /\ [][NextScope]_vars

\* --- undo: Runs of both tools and Resets, with and without an undo manager
UndoFonts ==
  {Font(Selection, TRUE, TRUE),
   Font(Selection, FALSE, TRUE),
   NoFont}

UndoKinds ==
  {Kind(Placed(Upright, 12 * Unit, 13 * Unit), "_dot", TRUE, "tuple"),
   Kind(Placed(FlippedV, 51 * Unit, 150 * Unit), "_dot", TRUE, "method"),
   Kind(Placed(Upright, 24 * Unit, 50 * Unit), "_dot", TRUE, "stale")}

\* step and tolerance
UndoFields == {<<Num(25 * Unit), Num(0)>>, <<Num(10 * Unit), Num(0)>>}

InitUndo == InitWith(UndoFonts, UndoKinds)

NextUndo ==
  \/ \E f \in UndoFields : GridRun(0, 0, f[1], f[2])
  \/ MirrorRun(0, 0, 0, 0)
  \/ GridReset
  \/ MirrorReset

SpecUndo == InitUndo /\ [][NextUndo]_vars

\* --- the Mirror Mender on a document that may be closed during a Run
ClosingFonts == {Font(Selection, TRUE, TRUE), Font(Selection, FALSE, FALSE)}

ClosingKinds ==
  {Kind(Placed(FlippedV, 50 * Unit, 150 * Unit), "_dot", TRUE, "tuple"),
   Kind(Placed(FlippedH, 24 * Unit, 10 * Unit), "_dot", TRUE, "method"),
   Kind(Placed(Upright, 12 * Unit, 13 * Unit), "_dot", TRUE, "tuple"),
   Kind(Placed(<<0, 1, 1, 0>>, 0, 0), "_dot", TRUE, "stale")}

InitClosing == InitWith(ClosingFonts, ClosingKinds)

NextClosing ==
  \/ \E me \in 0..2 : MirrorPreview(0, 0, me, 0)
  \/ \E me \in 0..2 : MirrorRun(0, 0, me, 0)
  \/ \E me \in 0..2, k \in 0..(NumComps - 1), raises \in BOOLEAN :
       MirrorRunClosing(0, 0, me, 0, k, raises)

SpecClosing == InitClosing /\ [][NextClosing]_vars

\* --- the panels' buttons pressed while callbacks run
PanelFonts == {Font(Selection, TRUE, TRUE)}

PanelKinds ==
  {Kind(Placed(Upright, 12 * Unit, 13 * Unit), "_dot", TRUE, "tuple"),
   Kind(Placed(FlippedV, 50 * Unit, 150 * Unit), "_dot", TRUE, "tuple")}

InitPanel == InitWith(PanelFonts, PanelKinds)

\* The callback the UI thread is in runs and returns.
GridPreviewReturns ==
  Running("grid", "preview") /\ GridPreview(0, 0, Num(25 * Unit), Num(0))

GridRunReturns ==
  Running("grid", "run") /\ GridRun(0, 0, Num(25 * Unit), Num(0))

MirrorPreviewReturns ==
  Running("mirror", "preview") /\ MirrorPreview(0, 0, 0, 0)

MirrorRunReturns ==
  Running("mirror", "run") /\ MirrorRun(0, 0, 0, 0)

NextPanel ==
  \/ \E tool \in {"grid", "mirror"}, kind \in {"preview", "run"} : Press(tool, kind)
  \/ Begin
  \/ GridPreviewReturns
  \/ GridRunReturns
  \/ MirrorPreviewReturns
  \/ MirrorRunReturns

SpecPanel == InitPanel /\ [][NextPanel]_vars

\* --- the Rotator Jig: axis ranges wide and narrow, one and two frames, no
\* frame, either direction, an axis that is not found
JigFonts ==
  {Font(Selection, TRUE, TRUE), Font(<<Layer("A", "m1")>>, TRUE, TRUE),
   Font(<<>>, TRUE, TRUE)}

JigKinds == {Kind(Placed(Upright, 12 * Unit, 13 * Unit), "_dot", TRUE, "tuple")}

JigSettings ==
  {JigIn("ROTA", 0, 1000, 0, 90, 30, TRUE),
   JigIn("ROTA", 0, 1000, 0, 90, 30, FALSE),
   JigIn("ROTA", 0, 3, 0, 90, 30, TRUE),
   JigIn("ROTA", 1000, 0, 90, 0, 45, TRUE),
   JigIn("ROTA", 0, 1000, 0, 90, 0, TRUE),
   JigIn("(no axes found)", 0, 1000, 0, 90, 30, TRUE)}

InitJig == InitWith(JigFonts, JigKinds)

NextJig == \E inp \in JigSettings : JigRun(inp)

SpecJig == InitJig /\ [][NextJig]_vars

\* ===================================================================== claims
\* The components of the layers a callback scanned.
ScannedComps == {c \in Comps : InSeq(Owner(c), last.layers)}

\* v lies exactly halfway between two gridlines of step s > 0.
Halfway(v, s) == 2 * (v % s) = s

\* The gridline nearest to v for step s > 0 (for a value halfway between two
\* gridlines, the even multiple of s; the statements below that depend on the
\* choice leave halfway values out).
NearestGridline(v, s) ==
  CHOOSE n \in {k * s : k \in (v \div s)..((v \div s) + 1)} :
    /\ 2 * Abs(n - v) <= s
    /\ 2 * Abs(n - v) = s => (n \div s) % 2 = 0

\* Apply handed the host value n for axis ax (5: tX, 6: tY) of component c, and
\* the component holds it if the write took effect.
WroteValue(c, ax, n) ==
  \E i \in 1..Len(calls) :
    /\ IsWrite(calls[i]) /\ calls[i].c = c /\ calls[i].s[ax] = n
    /\ calls[i].ok => transform[c][ax] = n

GridRan == last.tool = "grid" /\ last.kind = "run" /\ last.err = NoErr

\* C1 as stated: after a grid Apply, for every scanned component whose
\* transform reads and each of tX, tY with value v not halfway between two
\* gridlines: if the nearest gridline n differs from v and (tolerance = 0 or
\* |n - v| <= tolerance), Apply wrote n.
C1_AsStated ==
  GridRan =>
    \A c \in ScannedComps, ax \in {5, 6} :
      LET v == pre[c][ax]
          n == NearestGridline(v, last.inp.step)
      IN  (comps[c].rd /\ n # v /\ ~Halfway(v, last.inp.step)
             /\ (last.inp.tol = 0 \/ Abs(n - v) <= last.inp.tol))
            => WroteValue(c, ax, n)

\* C1 amended: the same, for a value that differs from its nearest gridline by
\* more than 1e-6; a value within 1e-6 of its gridline counts as on the grid.
C1_GridFormula ==
  GridRan =>
    \A c \in ScannedComps, ax \in {5, 6} :
      LET v == pre[c][ax]
          n == NearestGridline(v, last.inp.step)
      IN  (comps[c].rd /\ Abs(n - v) > Eps /\ ~Halfway(v, last.inp.step)
             /\ (last.inp.tol = 0 \/ Abs(n - v) <= last.inp.tol))
            => WroteValue(c, ax, n)

\* C1 witness: with step 25 and tolerance 5 a tY of 24 was written as 25, and
\* with tolerance 0 a tX of 12 as 0 or a tX of 13 as 25.
C1_Witness ==
  /\ GridRan /\ last.inp.step = 25 * Unit
  /\ \E c \in ScannedComps :
       \/ /\ last.inp.tol = 5 * Unit
          /\ pre[c][6] = 24 * Unit /\ transform[c][6] = 25 * Unit
       \/ /\ last.inp.tol = 0
          /\ pre[c][5] = 12 * Unit /\ transform[c][5] = 0
          /\ pre[c][6] = 13 * Unit /\ transform[c][6] = 25 * Unit

\* An axis value the grid rule does not call defective: on its gridline, or,
\* with a tolerance > 0, farther than the tolerance from it.
NotDefective(v, step, tol) ==
  LET n == NearestGridline(v, step)
  IN  n = v \/ (tol > 0 /\ Abs(n - v) > tol)

\* C2 as stated: after a grid Apply every tX and tY that was not defective is
\* what it was, whatever happened to the other axis of the component.
C2_AxesIndependent ==
  GridRan =>
    \A c \in ScannedComps, ax \in {5, 6} :
      NotDefective(pre[c][ax], last.inp.step, last.inp.tol)
        => transform[c][ax] = pre[c][ax]

\* The last callback was the Mirror Mender's and got past its input checks.
MirrorScanned == last.tool = "mirror" /\ last.err = NoErr

Det(s) == s[1] * s[4] - s[2] * s[3]

\* Component c was reflected when the callback started, and the scan made no
\* op for it.
ReflectedNoOp(c) ==
  /\ comps[c].rd /\ Det(pre[c]) < 0
  /\ \A i \in 1..Len(last.ops) : last.ops[i][1] # c

\* The report has, under the layer of component c, an entry for c that names
\* no fix.
ReportedUnfixed(c) ==
  \E i \in 1..Len(preview.text.lines) :
    /\ preview.text.lines[i].glyph = Owner(c).g
    /\ preview.text.lines[i].layer = Owner(c).m
    /\ \E j \in 1..Len(preview.text.lines[i].hits) :
         /\ preview.text.lines[i].hits[j].name = comps[c].base
         /\ preview.text.lines[i].hits[j].axis = "none"

\* C3 as stated: every transform in the Mirror Mender's op list has a
\* determinant >= 0, and every scanned component that was reflected and got
\* no op is reported as unfixed and holds the transform it had.
C3_OrientationAndUnfixed ==
  MirrorScanned =>
    /\ \A i \in 1..Len(last.ops) : Det(last.ops[i][2]) >= 0
    /\ \A c \in ScannedComps :
         ReflectedNoOp(c) => ReportedUnfixed(c) /\ transform[c] = pre[c]

\* The two parts of C3 that hold: every transform in the op list has a
\* determinant >= 0, and a reflected component without an op is left as it was.
OpsNotReflected ==
  MirrorScanned =>
    /\ \A i \in 1..Len(last.ops) : Det(last.ops[i][2]) >= 0
    /\ \A c \in ScannedComps : ReflectedNoOp(c) => transform[c] = pre[c]

\* The box of the base glyph of component c under the transform s.
BoxUnder(c, s) ==
  LET b == OutlineBounds(comps[c].base)
      xs == {s[1] * b[i] + s[3] * b[j] + s[5] : i \in {1, 3}, j \in {2, 4}}
      ys == {s[2] * b[i] + s[4] * b[j] + s[6] : i \in {1, 3}, j \in {2, 4}}
  IN  [minX |-> CHOOSE x \in xs : \A z \in xs : x <= z,
       minY |-> CHOOSE y \in ys : \A z \in ys : y <= z,
       maxX |-> CHOOSE x \in xs : \A z \in xs : x >= z,
       maxY |-> CHOOSE y \in ys : \A z \in ys : y >= z]

\* C4: for every op of a Mirror Mender scan, the box of the base bounds under
\* the op's transform has, with anchor BottomLeft, the (minX, minY) of the box
\* under the transform the component had, and with anchor Center its center
\* (the centers compared as sums of opposite sides).
C4_AnchorMatched ==
  MirrorScanned =>
    \A i \in 1..Len(last.ops) :
      LET was == BoxUnder(last.ops[i][1], pre[last.ops[i][1]])
          now == BoxUnder(last.ops[i][1], last.ops[i][2])
      IN  IF last.inp.anchorIdx = 1
          THEN /\ now.minX + now.maxX = was.minX + was.maxX
               /\ now.minY + now.maxY = was.minY + was.maxY
          ELSE now.minX = was.minX /\ now.minY = was.minY

\* C4 witness: a Run with anchor Center wrote a flip that had to be moved to
\* keep the center, and (in another state) one with anchor BottomLeft moved
\* the vertical reflection at (50, 150) to (50, 50).
C4_Witness ==
  /\ MirrorScanned /\ last.kind = "run"
  /\ \E i \in 1..Len(last.ops) :
       LET c == last.ops[i][1]
       IN  /\ transform[c] = last.ops[i][2]
           /\ \/ /\ last.inp.anchorIdx = 1
                 /\ <<transform[c][5], transform[c][6]>> # <<pre[c][5], pre[c][6]>>
              \/ /\ last.inp.anchorIdx = 0
                 /\ pre[c] = <<1, 0, 0, -1, 50 * Unit, 150 * Unit>>
                 /\ transform[c] = <<1, 0, 0, 1, 50 * Unit, 50 * Unit>>

\* C5 as stated: a grid Apply pressed right after a grid Apply with the same
\* scope, step and tolerance finds no op and changes no transform.
C5_SecondRunIdle ==
  (rerun.again /\ last.tool = "grid") => last.ops = <<>> /\ transform = pre

\* C5 amended: the same, when every write of the first Apply succeeded.
C5_Idempotent ==
  (rerun.again /\ last.tool = "grid" /\ rerun.fixed = rerun.ops)
    => last.ops = <<>> /\ transform = pre

\* C5 witness: the first Apply had ops and wrote them all, and the second
\* one found nothing.
C5_Witness ==
  /\ rerun.again /\ last.tool = "grid"
  /\ rerun.ops > 0 /\ rerun.fixed = rerun.ops
  /\ last.ops = <<>> /\ calls = <<>>

\* C6: after a Preview of either tool every transform is what it was, and the
\* callback made no host call: no write, no undo group, no redraw suspended.
C6_PreviewPure ==
  last.kind = "preview" =>
    /\ transform = pre
    /\ calls = <<>>
    /\ suspended = 0
    /\ undoOpen = 0

\* C6 witness: a Preview that found ops, and left the reflected or off-grid
\* component of its first op as it was.
C6_Witness ==
  /\ last.kind = "preview" /\ last.ops # <<>>
  /\ preview.kind = "report" /\ preview.text.found = Len(last.ops)
  /\ transform[last.ops[1][1]] # last.ops[1][2]

\* C7 as stated: every Run, whatever its outcome, closes the undo group
\* exactly once and leaves none open.
C7_ClosedExactlyOnce ==
  last.kind = "run" =>
    Count(calls, "endUndoGrouping") = 1 /\ undoOpen = 0

\* C7 amended: a Run opens an undo group exactly when it has ops to write and
\* the undo manager is available; it closes every group it opens, once, and
\* leaves none open.
C7_UndoBalanced ==
  last.kind = "run" =>
    /\ Count(calls, "beginUndoGrouping")
         = (IF last.err = NoErr /\ last.ops # <<>> /\ host.um THEN 1 ELSE 0)
    /\ Count(calls, "endUndoGrouping") = Count(calls, "beginUndoGrouping")
    /\ \A i \in 1..Len(calls) :
         calls[i].op = "endUndoGrouping"
           => \E j \in 1..(i - 1) : calls[j].op = "beginUndoGrouping"
    /\ undoOpen = 0

\* C7 witness: a Run in which a write failed and another succeeded closed the
\* one group it opened.
C7_Witness ==
  /\ last.kind = "run"
  /\ \E i, j \in 1..Len(calls) :
       IsWrite(calls[i]) /\ ~calls[i].ok /\ IsWrite(calls[j]) /\ calls[j].ok
  /\ Count(calls, "beginUndoGrouping") = 1
  /\ Count(calls, "endUndoGrouping") = 1

\* A Run that had at least one op.
RanWithOps == last.kind = "run" /\ last.err = NoErr /\ last.ops # <<>>

OpNames(log) == [i \in 1..Len(log) |-> log[i].op]

Writes(n) == [i \in 1..n |-> "set_transform"]

Redraws(log) == \A i \in 1..Len(log) : log[i] \in {"currentTab.redraw", "Glyphs.redraw"}

\* C8 as stated: a Run with ops calls, in this order, suspend redraw, begin
\* undo group, one write per op, end undo group, resume redraw, and then
\* redraw requests only (at least one); no redraw is left suspended.
C8_FullProtocol ==
  RanWithOps =>
    /\ \E tail \in {SubSeq(OpNames(calls), Len(last.ops) + 5, Len(calls))} :
         /\ tail # <<>> /\ Redraws(tail)
         /\ OpNames(calls) = <<"disableUpdateInterface", "beginUndoGrouping">>
                               \o Writes(Len(last.ops))
                               \o <<"endUndoGrouping", "enableUpdateInterface">>
                               \o tail
    /\ suspended = 0

\* C8 amended: the same order, the undo group being begun and ended only when
\* the host's undo manager is available; without it the writes still happen
\* between suspend and resume.
C8_Protocol ==
  RanWithOps =>
    /\ \E u \in {IF host.um THEN 1 ELSE 0} :
       \E tail \in {SubSeq(OpNames(calls), Len(last.ops) + 3 + 2 * u, Len(calls))} :
         /\ tail # <<>> /\ Redraws(tail) /\ tail[Len(tail)] = "Glyphs.redraw"
         /\ OpNames(calls) = <<"disableUpdateInterface">>
                               \o (IF u = 1 THEN <<"beginUndoGrouping">> ELSE <<>>)
                               \o Writes(Len(last.ops))
                               \o (IF u = 1 THEN <<"endUndoGrouping">> ELSE <<>>)
                               \o <<"enableUpdateInterface">>
                               \o tail
    /\ suspended = 0

\* C8 witness: a Run with two ops on a host with an undo manager and an open
\* tab made all eight calls, and (in another state) one on a host without an
\* undo manager made its writes with no undo group at all.
C8_Witness ==
  /\ RanWithOps
  /\ \/ host.um /\ host.tab /\ Len(last.ops) = 2 /\ Len(calls) = 8
     \/ ~host.um /\ Count(calls, "beginUndoGrouping") = 0
          /\ Count(calls, "set_transform") = Len(last.ops)

\* The transform writes among the calls, in order.
WriteCalls == SelectSeq(calls, IsWrite)

\* C9: a Run with ops attempts every op, once, in the order of the list, also
\* after a write that failed; the count it prints is the number of writes that
\* took effect, and with the number that failed it makes the number of ops.  A
\* component whose write took effect holds the op's transform, one whose write
\* failed holds what it had.
C9_BatchContinues ==
  RanWithOps =>
    /\ Len(WriteCalls) = Len(last.ops)
    /\ \A i \in 1..Len(last.ops) :
         /\ WriteCalls[i].c = last.ops[i][1]
         /\ WriteCalls[i].s = last.ops[i][2]
         /\ transform[last.ops[i][1]]
              = (IF WriteCalls[i].ok THEN last.ops[i][2] ELSE pre[last.ops[i][1]])
    /\ last.fixed = Cardinality({i \in 1..Len(WriteCalls) : WriteCalls[i].ok})
    /\ last.fixed + Cardinality({i \in 1..Len(WriteCalls) : ~WriteCalls[i].ok})
         = Len(last.ops)
    /\ Len(printed) = 3 /\ printed[2].n = last.fixed

\* C9 witness: the write of the first op failed, the write of the second one
\* took effect, and the Run counted one.
C9_Witness ==
  /\ RanWithOps
  /\ Len(WriteCalls) = 2
  /\ ~WriteCalls[1].ok /\ WriteCalls[2].ok
  /\ last.fixed = 1

\* Scope resolution has nothing to yield for what the last callback was given:
\* no document open; the selection scope with nothing selected; another scope
\* with no master to take, or with no selected glyph, or with no exportable one.
NothingInScope ==
  \/ ~host.open
  \/ last.inp.scopeIdx = 0 /\ host.sel = <<>>
  \/ /\ last.inp.scopeIdx # 0
     /\ \/ last.inp.masterMode = 0 /\ host.cur = NoMaster
        \/ last.inp.masterMode # 0 /\ host.masters = <<>>
        \/ last.inp.scopeIdx = 1 /\ host.sel = <<>>
        \/ last.inp.scopeIdx = 2 /\ \A i \in 1..Len(host.glyphs) : host.glyphs[i] \notin host.export

BadGridNumbers == last.tool = "grid" /\ (last.inp.step <= 0 \/ last.inp.tol < 0)

\* C10: a Run whose scope resolves to nothing, or (Grid Snapper) whose step is
\* <= 0 or whose tolerance is < 0, prints the error and nothing else, and
\* makes no host call: no write, no undo group, no redraw suspended; every
\* transform is what it was.
C10_InputGuard ==
  (last.kind = "run" /\ (NothingInScope \/ BadGridNumbers)) =>
    /\ last.err # NoErr
    /\ printed = <<Said(last.err, 0)>>
    /\ calls = <<>>
    /\ transform = pre
    /\ suspended = 0 /\ undoOpen = 0

\* C10 witness: a Grid Snapper Run with a tolerance < 0 over a selection with
\* an off-grid component was refused, and (in another state) a Run of either
\* tool with no font open.
C10_Witness ==
  /\ last.kind = "run" /\ last.err # NoErr
  /\ \/ /\ last.tool = "grid" /\ last.inp.tol < 0 /\ last.inp.step > 0
        /\ host.open /\ host.sel # <<>>
        /\ \E c \in Comps : InSeq(Owner(c), host.sel) /\ transform[c][5] % last.inp.step # 0
     \/ ~host.open

\* The two flips of a transform, written out.
VerticalFlipOf(s) == <<s[1], s[2], -s[3], -s[4]>>

HorizontalFlipOf(s) == <<-s[1], -s[2], s[3], s[4]>>

LinearOf(s) == <<s[1], s[2], s[3], s[4]>>

\* How far (|dx| + |dy|, doubled for the Center anchor) the flip lin of
\* component c has to be moved to put its box back on the anchor of the box c
\* had when the callback started.
MoveNeeded(c, lin) ==
  LET was == BoxUnder(c, pre[c])
      now == BoxUnder(c, <<lin[1], lin[2], lin[3], lin[4], pre[c][5], pre[c][6]>>)
  IN  IF last.inp.anchorIdx = 1
      THEN Abs((was.minX + was.maxX) - (now.minX + now.maxX))
             + Abs((was.minY + was.maxY) - (now.minY + now.maxY))
      ELSE Abs(was.minX - now.minX) + Abs(was.minY - now.minY)

\* C11: in Auto mode every op holds the flip that needs the smaller move, and
\* the vertical flip when both need the same.
C11_AutoPicksLeast ==
  (MirrorScanned /\ last.inp.methodIdx = 0) =>
    \A i \in 1..Len(last.ops) :
      LET c == last.ops[i][1]
      IN  LinearOf(last.ops[i][2])
            = (IF MoveNeeded(c, VerticalFlipOf(pre[c]))
                    <= MoveNeeded(c, HorizontalFlipOf(pre[c]))
               THEN VerticalFlipOf(pre[c])
               ELSE HorizontalFlipOf(pre[c]))

\* C11 witness: an Auto scan with two ops, one for a component whose flips
\* need the same move, holding the vertical flip, and one for a component
\* whose horizontal flip needs less, holding the horizontal flip.
C11_Witness ==
  /\ MirrorScanned /\ last.inp.methodIdx = 0
  /\ \E i, j \in 1..Len(last.ops) :
       /\ MoveNeeded(last.ops[i][1], VerticalFlipOf(pre[last.ops[i][1]]))
            = MoveNeeded(last.ops[i][1], HorizontalFlipOf(pre[last.ops[i][1]]))
       /\ LinearOf(last.ops[i][2]) = VerticalFlipOf(pre[last.ops[i][1]])
       /\ MoveNeeded(last.ops[j][1], HorizontalFlipOf(pre[last.ops[j][1]]))
            < MoveNeeded(last.ops[j][1], VerticalFlipOf(pre[last.ops[j][1]]))
       /\ LinearOf(last.ops[j][2]) = HorizontalFlipOf(pre[last.ops[j][1]])

\* The flip the panel's method forces (1: vertical, 2: horizontal).
ForcedFlipOf(s) ==
  IF last.inp.methodIdx = 1 THEN VerticalFlipOf(s) ELSE HorizontalFlipOf(s)

\* C12: with a forced method every op holds the forced flip, whose determinant
\* is >= 0; no op holds the flip of the other axis, whatever move it needs.
C12_ForcedAxisOnly ==
  (MirrorScanned /\ last.inp.methodIdx \in {1, 2}) =>
    \A i \in 1..Len(last.ops) :
      /\ LinearOf(last.ops[i][2]) = ForcedFlipOf(pre[last.ops[i][1]])
      /\ Det(ForcedFlipOf(pre[last.ops[i][1]])) >= 0

\* C12 witness: HorizontalOnly gave a component the horizontal flip although
\* its vertical flip needs the smaller move.
C12_Witness ==
  /\ MirrorScanned /\ last.inp.methodIdx = 2
  /\ \E i \in 1..Len(last.ops) :
       /\ MoveNeeded(last.ops[i][1], VerticalFlipOf(pre[last.ops[i][1]]))
            < MoveNeeded(last.ops[i][1], HorizontalFlipOf(pre[last.ops[i][1]]))
       /\ LinearOf(last.ops[i][2]) = HorizontalFlipOf(pre[last.ops[i][1]])

\* Of the two gridlines next to a halfway value v, the one farther from zero.
AwayFromZero(v, s) == IF v >= 0 THEN ((v \div s) + 1) * s ELSE (v \div s) * s

\* C13 as stated: after a grid Apply with tolerance 0, for every scanned
\* component whose transform reads, a tX or tY exactly halfway between two
\* gridlines was written as the gridline farther from zero.
C13_HalfAwayFromZero ==
  (GridRan /\ last.inp.tol = 0) =>
    \A c \in ScannedComps, ax \in {5, 6} :
      (comps[c].rd /\ Halfway(pre[c][ax], last.inp.step))
        => WroteValue(c, ax, AwayFromZero(pre[c][ax], last.inp.step))

\* What the code does with halfway values: the gridline that is an even
\* multiple of the step.
HalfToEven ==
  (GridRan /\ last.inp.tol = 0) =>
    \A c \in ScannedComps, ax \in {5, 6} :
      (comps[c].rd /\ Halfway(pre[c][ax], last.inp.step))
        => /\ WroteValue(c, ax, NearestGridline(pre[c][ax], last.inp.step))
           /\ (NearestGridline(pre[c][ax], last.inp.step) \div last.inp.step) % 2 = 0

\* C14: a Mirror Mender scan takes a scanned component for reflected exactly
\* when its transform reads and has a determinant < 0; only such components
\* get an op.  One with determinant 0 or > 0, or whose transform does not
\* read, is passed over.
C14_ReflectedIffNegative ==
  MirrorScanned =>
    /\ \A c \in ScannedComps : c \in flagged <=> (comps[c].rd /\ Det(pre[c]) < 0)
    /\ \A i \in 1..Len(last.ops) : last.ops[i][1] \in flagged

\* C14 witness: a scan of two components took one with determinant < 0 for
\* reflected and passed over one whose determinant is 0.
C14_Witness ==
  /\ MirrorScanned
  /\ \E c, d \in ScannedComps :
       /\ Det(pre[c]) < 0 /\ c \in flagged
       /\ comps[d].rd /\ Det(pre[d]) = 0 /\ d \notin flagged

\* The last callback was the Grid Snapper's and got past its input checks.
GridScanned == last.tool = "grid" /\ last.err = NoErr

\* C15: every op of a Grid Snapper scan has the four scalars m11, m12, m21,
\* m22 its component had when the callback started, and after the callback
\* every component still has them.
C15_LinearPartKept ==
  GridScanned =>
    /\ \A i \in 1..Len(last.ops) :
         LinearOf(last.ops[i][2]) = LinearOf(pre[last.ops[i][1]])
    /\ \A c \in Comps : LinearOf(transform[c]) = LinearOf(pre[c])

\* C15 witness: a Run moved a vertically reflected component, which is still
\* vertically reflected.
C15_Witness ==
  /\ GridRan
  /\ \E i \in 1..Len(last.ops) :
       LET c == last.ops[i][1]
       IN  /\ LinearOf(pre[c]) = <<1, 0, 0, -1>>
           /\ transform[c] = last.ops[i][2]
           /\ transform[c] # pre[c]
           /\ LinearOf(transform[c]) = <<1, 0, 0, -1>>

\* A Mirror Mender Run pressed right after a Mirror Mender Run over the same
\* scope whose writes all succeeded.
MirrorRerun ==
  rerun.sameScope /\ last.tool = "mirror" /\ rerun.fixed = rerun.ops

\* C16: such a second Run, whatever its method and anchor, takes none of the
\* components the first Run corrected for reflected, has no op and makes no
\* write; every transform is what it was.
C16_MirrorIdempotent ==
  MirrorRerun =>
    /\ flagged \cap rerun.comps = {}
    /\ last.ops = <<>>
    /\ Count(calls, "set_transform") = 0
    /\ transform = pre

\* C16 witness: the first Run corrected a component, and the second Run, with
\* another method or anchor, found nothing to do.
C16_Witness ==
  /\ MirrorRerun /\ ~rerun.again
  /\ rerun.ops > 0 /\ rerun.comps # {}
  /\ last.ops = <<>> /\ calls = <<>>

\* A Run over a scope that resolves, with sound numbers, whose scan found no
\* op.
NoWorkFound ==
  /\ last.kind = "run" /\ ~NothingInScope /\ ~BadGridNumbers
  /\ last.scanned /\ last.ops = <<>>

\* C17: such a Run is no error: it shows the scan's report, prints the one
\* line "Nothing to snap." (Grid Snapper) or "Nothing to fix." (Mirror
\* Mender), and makes no host call; every transform is what it was.
C17_NothingToDo ==
  NoWorkFound =>
    /\ last.err = NoErr
    /\ preview.kind = "report" /\ preview.text.found = 0
    /\ printed = <<Said(IF last.tool = "grid" THEN "Nothing to snap."
                        ELSE "Nothing to fix.", 0)>>
    /\ calls = <<>>
    /\ transform = pre

\* C17 witness: a Grid Snapper Run scanned components and found them all on
\* the grid.
C17_Witness ==
  /\ NoWorkFound /\ last.tool = "grid"
  /\ ScannedComps # {}
  /\ preview.text.comps > 0
  /\ printed = <<Said("Nothing to snap.", 0)>>

\* The op list a scan of the document as it was when the callback started
\* yields, for the layers and the settings of the last callback.
OpsOfSnapshot ==
  IF last.tool = "grid"
  THEN Grid_scan(last.layers, last.inp.step, last.inp.tol, pre, comps).ops
  ELSE Mirror_scan(last.layers, settings(last.inp.methodIdx, last.inp.anchorIdx).prefer,
                   settings(last.inp.methodIdx, last.inp.anchorIdx).anchor,
                   pre, comps).ops

\* C18: the transform writes of a Run are, one for one and in order, the ops
\* of a scan of the document as it was before the Run: none is dropped, added
\* or computed from a transform the Run itself wrote.
C18_WritesAreTheSnapshot ==
  RanWithOps =>
    /\ last.ops = OpsOfSnapshot
    /\ [i \in 1..Len(WriteCalls) |-> <<WriteCalls[i].c, WriteCalls[i].s>>] = OpsOfSnapshot

\* C18 witness: the op list held the same component twice (its layer is
\* selected twice); the Run wrote it twice, the second time with what the
\* scan had computed before the first write changed the component.
C18_Witness ==
  /\ RanWithOps
  /\ \E i, j \in 1..Len(WriteCalls) :
       /\ i < j
       /\ WriteCalls[i].c = WriteCalls[j].c
       /\ WriteCalls[i].ok /\ WriteCalls[j].ok
       /\ WriteCalls[j].s = WriteCalls[i].s
       /\ pre[WriteCalls[i].c] # WriteCalls[i].s

\* The last callback resolved its scope.
ScopeResolved == last.kind # "none" /\ last.err = NoErr

\* C19 as stated: the resolved layer list holds no layer twice, and no
\* component has two ops.
C19_NoLayerTwice ==
  ScopeResolved =>
    /\ \A i, j \in 1..Len(last.layers) : i # j => last.layers[i] # last.layers[j]
    /\ \A i, j \in 1..Len(last.ops) : i # j => last.ops[i][1] # last.ops[j][1]

\* What holds of C19: for the scopes that expand glyphs (SelectedGlyphs,
\* AllExportableGlyphs) the resolved list holds no layer twice.
ExpandedScopesDistinct ==
  (ScopeResolved /\ last.inp.scopeIdx # 0) =>
    \A i, j \in 1..Len(last.layers) : i # j => last.layers[i] # last.layers[j]

\* Where x first stands in the sequence sq (0: nowhere).
FirstAt(x, sq) ==
  IF \E i \in 1..Len(sq) : sq[i] = x
  THEN CHOOSE i \in 1..Len(sq) : sq[i] = x /\ \A j \in 1..(i - 1) : sq[j] # x
  ELSE 0

\* The glyphs a scope stands for, in their order: for SelectedGlyphs the
\* glyphs of the selected layers in the order they are first selected, for
\* AllExportableGlyphs the exportable glyphs in the order of the font.
GlyphRank(g) ==
  IF last.inp.scopeIdx = 1
  THEN FirstAt(g, [i \in 1..Len(host.sel) |-> host.sel[i].g])
  ELSE IF g \in host.export THEN FirstAt(g, host.glyphs) ELSE 0

\* The masters a master setting stands for, in their order.
MasterRank(m) ==
  IF last.inp.masterMode = 0 THEN (IF m = host.cur THEN 1 ELSE 0)
  ELSE FirstAt(m, host.masters)

\* C20: for SelectedLayers the resolved list is the selection as it is,
\* whatever the master setting; for the other scopes it holds exactly the
\* layers (glyph of the scope, master of the setting) that exist, each once,
\* glyph by glyph and within a glyph master by master.
C20_ScopeExpansion ==
  ScopeResolved =>
    IF last.inp.scopeIdx = 0 THEN last.layers = host.sel
    ELSE /\ \A i \in 1..Len(last.layers) :
              /\ GlyphRank(last.layers[i].g) > 0
              /\ MasterRank(last.layers[i].m) > 0
              /\ HasLayer(last.layers[i].g, last.layers[i].m)
         /\ \A i \in 1..Len(host.glyphs), j \in 1..Len(host.masters) :
              (GlyphRank(host.glyphs[i]) > 0 /\ MasterRank(host.masters[j]) > 0
                 /\ HasLayer(host.glyphs[i], host.masters[j]))
                => InSeq(Layer(host.glyphs[i], host.masters[j]), last.layers)
         /\ \A i, j \in 1..Len(last.layers) :
              i < j =>
                \/ GlyphRank(last.layers[i].g) < GlyphRank(last.layers[j].g)
                \/ /\ last.layers[i].g = last.layers[j].g
                   /\ MasterRank(last.layers[i].m) < MasterRank(last.layers[j].m)

\* C20 witness: SelectedGlyphs over all masters, with B selected before A and
\* B having no layer for m2, resolved to B/m1, A/m1, A/m2; and (in another
\* state) SelectedLayers resolved to the selection in a font without masters.
C20_Witness ==
  /\ ScopeResolved
  /\ \/ /\ last.inp.scopeIdx = 1 /\ last.inp.masterMode = 1
        /\ last.layers = <<Layer("B", "m1"), Layer("A", "m1"), Layer("A", "m2")>>
     \/ /\ last.inp.scopeIdx = 0 /\ host.masters = <<>>
        /\ last.layers = host.sel /\ host.sel # <<>>

\* A Reset pressed right after a Run that wrote at least one transform.
ResetAfterApply == last.kind = "reset" /\ undone.afterApply

\* C21, as stated: after an Apply that performed at least one write, one Reset
\* returns every component transform to its value before that Apply.
C21_OneResetRestores ==
  ResetAfterApply => \A c \in Comps : transform[c] = undone.was[c]

\* C21, where it holds: the same, for a document whose undo manager is
\* available; all the writes of the Apply are then taken back by the one undo.
C21_OneUndoStep ==
  (ResetAfterApply /\ host.um) => \A c \in Comps : transform[c] = undone.was[c]

\* A Reset took back an Apply that had written two transforms.
C21_Witness ==
  /\ ResetAfterApply /\ host.um
  /\ Cardinality({c \in Comps : pre[c] # undone.was[c]}) >= 2
  /\ \A c \in Comps : transform[c] = undone.was[c]

\* The last callback was a Run during whose write loop the document was closed.
ClosedMidApply == last.kind = "run" /\ last.applied /\ ~host.open

\* C22: if the document becomes unavailable in the middle of an Apply, the
\* remaining ops of the batch are not attempted, the writes already applied
\* stay committed, and the undo group is then closed normally.
C22_BatchAborted ==
  ClosedMidApply =>
    /\ Len(WriteCalls) < Len(last.ops)
    /\ \A i \in 1..Len(WriteCalls) : WriteCalls[i].ok => transform[WriteCalls[i].c] = WriteCalls[i].s
    /\ undoOpen = 0

\* What the code does instead: every op of the batch is attempted, in order,
\* whether the document is still there or not; the writes that succeeded stay
\* and the group is closed.
AllOpsAttempted ==
  ClosedMidApply =>
    /\ Len(WriteCalls) = Len(last.ops)
    /\ \A i \in 1..Len(WriteCalls) : WriteCalls[i].ok => transform[WriteCalls[i].c] = WriteCalls[i].s
    /\ undoOpen = 0

\* The transform and the boxes of the worked scenario.
ScenarioTransform == <<1, 0, 0, -1, 50 * Unit, 150 * Unit>>

ScenarioBase == <<0, 0, 100 * Unit, 100 * Unit>>

ScenarioBox ==
  [minX |-> 50 * Unit, minY |-> 50 * Unit, maxX |-> 150 * Unit, maxY |-> 150 * Unit]

ScenarioFixed == <<1, 0, 0, 1, 50 * Unit, 50 * Unit>>

\* The components of the worked scenario a Mirror Mender scan with method Auto
\* and anchor BottomLeft met.
ScenarioComps ==
  IF MirrorScanned /\ last.inp.methodIdx = 0 /\ last.inp.anchorIdx = 0
  THEN {c \in ScannedComps : /\ comps[c].rd
                              /\ OutlineBounds(comps[c].base) = ScenarioBase
                              /\ pre[c] = ScenarioTransform}
  ELSE {}

\* C23: for base bounds (0,0,100,100), transform (1,0,0,-1,50,150), method Auto
\* and anchor BottomLeft, the current box is (50,50,150,150), the vertical-flip
\* candidate has delta (0,-100) and is the one chosen, and the op's transform
\* is (1,0,0,1,50,50), whose box is (50,50,150,150).
C23_WorkedScenario ==
  \A c \in ScenarioComps :
    /\ BoxUnder(c, pre[c]) = ScenarioBox
    /\ bbox_from_transformed_base_bounds(ScenarioBase, pre[c])
         = <<50 * Unit, 50 * Unit, 150 * Unit, 150 * Unit>>
    /\ \E i \in 1..Len(last.ops) :
         /\ last.ops[i][1] = c
         /\ last.ops[i][2] = ScenarioFixed
         /\ LinearOf(last.ops[i][2]) = VerticalFlipOf(pre[c])
         /\ last.ops[i][2][5] - pre[c][5] = 0
         /\ last.ops[i][2][6] - pre[c][6] = -100 * Unit
         /\ BoxUnder(c, last.ops[i][2]) = ScenarioBox

\* C23 witness: a Run with method Auto and anchor BottomLeft wrote
\* (1,0,0,1,50,50) to a component of the scenario.
C23_Witness ==
  /\ last.kind = "run"
  /\ \E c \in ScenarioComps : transform[c] = ScenarioFixed

\* C24: a Preview pressed right after a Preview of the same tool with the same
\* settings, nothing having touched the document in between, shows the same
\* report text.
C24_PreviewDeterministic ==
  (before.same /\ last.kind = "preview") => preview = before.preview

\* C24 witness: a repeated Preview showing a report with at least one fix,
\* the same as before.
C24_Witness ==
  /\ before.same /\ last.kind = "preview" /\ last.scanned
  /\ preview.kind = "report" /\ preview.text.found >= 1
  /\ preview = before.preview

BracesNamed(g, m, n) ==
  Cardinality({i \in 1..Len(jig.layers[g]) :
                 jig.layers[g][i].m = m /\ jig.layers[g][i].name = n})

\* C26: after Run is pressed twice with the same settings on the same
\* selection, every glyph has, for the current master, exactly one brace layer
\* per generated axis-value name, and no more layers than before the second
\* Run.
C26_SafeRerun ==
  jig.again =>
    \A g \in jig.glyphs :
      /\ \A n \in jig.names : BracesNamed(g, host.cur, n) = 1
      /\ Len(jig.layers[g]) <= Len(jig.before[g])

\* The part of C26 that holds: the second Run leaves as many layers as it
\* found.
RerunKeepsCount ==
  jig.again => \A g \in jig.glyphs : Len(jig.layers[g]) = Len(jig.before[g])

\* The transforms whose linear part has entries in -2..2, placed at (10, 20).
SmallTransforms ==
  {<<a, b, c, d, 10 * Unit, 20 * Unit>> : a \in -2..2, b \in -2..2, c \in -2..2, d \in -2..2}

\* The cands list choose_best_fix builds for the transform s of a component on
\* the base bounds (0, 0, 100, 100), anchor BottomLeft.
CandsOf(s) ==
  candidates(bbox_from_transformed_base_bounds(OutlineBounds("_dot"), s),
             OutlineBounds("_dot"), s, "bottomleft")

HasOp(c) == \E i \in 1..Len(last.ops) : last.ops[i][1] = c

\* Both flips of s have the determinant -det(s), and the cands list for s has
\* two entries if det(s) < 0, and two or none otherwise.
FlipsNegateDet(s) ==
  /\ det_of(flipY_in_component_space(s)) = -det_of(s)
  /\ det_of(flipX_in_component_space(s)) = -det_of(s)
  /\ Len(CandsOf(s)) \in {0, 2}
  /\ det_of(s) < 0 => Len(CandsOf(s)) = 2

\* C27: for every transform s both flips have the determinant -det(s), so the
\* cands list has 2 entries when det(s) <= 0 and none otherwise; and after a
\* Mirror Mender scan every component taken for reflected whose base glyph has
\* bounds has an op.  (The first part does not depend on the state: it is
\* evaluated for the transforms of the components in every state, and for all
\* of SmallTransforms in the initial states.)
C27_BothFlipsSurvive ==
  /\ \A c \in Comps : FlipsNegateDet(pre[c]) /\ FlipsNegateDet(transform[c])
  /\ last.kind = "none" => \A s \in SmallTransforms : FlipsNegateDet(s)
  /\ MirrorScanned =>
       \A c \in flagged : OutlineBounds(comps[c].base) # NoBounds => HasOp(c)

\* C27 witness: a scan met a reflected component on a base glyph with bounds,
\* which has an op, one on an empty base glyph, which has none, and one that
\* is not reflected.
C27_Witness ==
  /\ MirrorScanned
  /\ \E c \in flagged : OutlineBounds(comps[c].base) # NoBounds /\ HasOp(c)
  /\ \E c \in ScannedComps : comps[c].rd /\ Det(pre[c]) > 0 /\ ~HasOp(c)

\* The transform choose_best_fix's pick p leads to: the flip, moved by the
\* delta.
Corrected(p) ==
  <<p.s[1], p.s[2], p.s[3], p.s[4], p.s[5] + p.dx, p.s[6] + p.dy>>

\* The cands list for component c as it was when the callback started.
CandsFor(c, anchor) ==
  candidates(bbox_from_transformed_base_bounds(OutlineBounds(comps[c].base), pre[c]),
             OutlineBounds(comps[c].base), pre[c], anchor)

\* The components a Mirror Mender scan took for reflected whose base glyph
\* has bounds.
Fixable == {c \in flagged : OutlineBounds(comps[c].base) # NoBounds}

\* C28: for a reflected component with base bounds, either flip candidate,
\* moved by its delta, puts the box of the base bounds where it was, in all
\* four coordinates, whichever the anchor; the two anchors give the same
\* candidates, and the op of the scan keeps the box.
C28_WholeBoxKept ==
  MirrorScanned =>
    /\ \A c \in Fixable :
         /\ \A anchor \in {"bottomleft", "center"} :
              \A i \in 1..Len(CandsFor(c, anchor)) :
                BoxUnder(c, Corrected(CandsFor(c, anchor)[i])) = BoxUnder(c, pre[c])
         /\ CandsFor(c, "bottomleft") = CandsFor(c, "center")
    /\ \A i \in 1..Len(last.ops) :
         BoxUnder(last.ops[i][1], last.ops[i][2]) = BoxUnder(last.ops[i][1], pre[last.ops[i][1]])

\* C28 witness: a Run with anchor Center wrote to a sheared reflected
\* component a flip moved both ways, and the box is where it was.
C28_Witness ==
  /\ MirrorScanned /\ last.kind = "run" /\ last.inp.anchorIdx = 1
  /\ \E c \in Fixable :
       /\ pre[c][2] # 0
       /\ transform[c] # pre[c]
       /\ transform[c][5] # pre[c][5]
       /\ BoxUnder(c, transform[c]) = BoxUnder(c, pre[c])

\* The components of the op list of the last callback.
OpComps == {last.ops[i][1] : i \in 1..Len(last.ops)}

\* C29: a Run of either tool changes the transform of no component outside
\* its op list (be it a scanned component the scan did not find defective or
\* a component of a layer outside the resolved scope), calls the host only to
\* write the transforms of op-list components, to group the undo and to
\* redraw, and leaves the set of components as it was.
C29_OnlyOpsWritten ==
  last.kind = "run" =>
    /\ \A c \in Comps \ OpComps : transform[c] = pre[c]
    /\ \A c \in Comps \ ScannedComps : c \notin OpComps /\ transform[c] = pre[c]
    /\ \A i \in 1..Len(calls) :
         \/ IsWrite(calls[i]) /\ calls[i].c \in OpComps
         \/ calls[i].op \in {"disableUpdateInterface", "enableUpdateInterface",
                              "beginUndoGrouping", "endUndoGrouping",
                              "currentTab.redraw", "Glyphs.redraw"}
    /\ DOMAIN transform = Comps /\ DOMAIN comps = Comps

\* C29 witness: a Run wrote to a component of its op list, while a component
\* with the same transform in a layer outside the scope kept it.
C29_Witness ==
  /\ last.kind = "run" /\ last.applied
  /\ \E c \in OpComps, d \in Comps \ ScannedComps :
       /\ transform[c] # pre[c]
       /\ pre[d] = pre[c] /\ comps[d].base = comps[c].base
       /\ transform[d] = pre[d]

\* A Run pressed right after a Preview of the same tool with the same
\* settings, both past the input checks.
RunAfterPreview == last.kind = "run" /\ before.same /\ last.err = NoErr

\* The fix lines of the report the Preview showed, in order.
ShownFixes ==
  Flatten([i \in 1..Len(before.preview.text.lines) |-> before.preview.text.lines[i].hits])

\* What a grid fix line says of one axis (Unchanged, or old -> new) is what the
\* op does to the value v of that axis.
AxisAsShown(shown, v, newV) ==
  IF shown = Unchanged THEN newV = v ELSE shown = <<Fmt2(v), Fmt0(newV)>>

\* The fix line describes the op: in grid mode both axes as shown, in mirror
\* mode the flip named and the move shown.
FixAsShown(line, op) ==
  IF last.tool = "grid"
  THEN /\ AxisAsShown(line.x, pre[op[1]][5], op[2][5])
       /\ AxisAsShown(line.y, pre[op[1]][6], op[2][6])
       /\ LinearOf(op[2]) = LinearOf(pre[op[1]])
  ELSE /\ LinearOf(op[2]) = (IF line.axis = "Y" THEN VerticalFlipOf(pre[op[1]])
                               ELSE HorizontalFlipOf(pre[op[1]]))
       /\ line.dx = Fmt0(op[2][5] - pre[op[1]][5])
       /\ line.dy = Fmt0(op[2][6] - pre[op[1]][6])

\* The part of C30 that holds: the Run finds and writes, in order, the ops the
\* Preview's scan had found, as many as the header of the report says, one
\* per fix line.
RunOpsArePreviewOps ==
  RunAfterPreview =>
    /\ last.ops = before.ops
    /\ before.preview.text.found = Len(last.ops)
    /\ Len(ShownFixes) = Len(last.ops)
    /\ Len(WriteCalls) = Len(last.ops)
    /\ \A k \in 1..Len(last.ops) :
         WriteCalls[k].c = last.ops[k][1] /\ WriteCalls[k].s = last.ops[k][2]

\* C30: a Run on the document state and with the settings of a Preview
\* applies exactly the fixes the Preview's report shows, and the header count
\* of the report is the number of ops.
C30_RunAppliesPreview ==
  /\ RunOpsArePreviewOps
  /\ RunAfterPreview =>
       \A k \in 1..Len(last.ops) :
         k <= Len(ShownFixes) /\ FixAsShown(ShownFixes[k], last.ops[k])

====
